---------------------------- MODULE Spec2Model ----------------------------
(***************************************************************************)
(* KaomojiReplacer: the BM25 search engine (src/core/SearchEngine.js) and   *)
(* the marker replacer that drives it (src/core/EmoticonReplacer.js).       *)
(*                                                                          *)
(* Representation.                                                          *)
(*  - A JavaScript string is a sequence of characters; a character is a     *)
(*    one-element name such as "kai" (for U+5F00) or "[" .  All characters  *)
(*    of the model are in the Basic Multilingual Plane, so split(''),       *)
(*    for..of and length agree on them.                                     *)
(*  - A JavaScript number that is not an integer is kept in fixed point     *)
(*    with FP units per 1.0, rounded toward zero after every operation.     *)
(*    NaN (the average length of an empty corpus, 0/0) is the value NaN.    *)
(*  - An offset is 0-based as in JavaScript; sequences are 1-based.         *)
(***************************************************************************)
EXTENDS Integers, Sequences, FiniteSets, TLC

\* ------------------------------------------------------------------------
\* Numbers
\* ------------------------------------------------------------------------

\* Fixed-point unit: the integer n stands for the number n / FP.
FP == 10 * 10 * 10

\* Working precision of the logarithm series.
LnUnit == FP * FP

\* 0/0, the value of avgDocLength and avgCharDocLength over zero documents.
NaN == 0 - 1

\* constructor defaults: config.k1 || 1.5, config.b || 0.75, config.charWeight || 0.6
k1 == 1500
b == 750
charWeight == 600

\* a / b on fixed-point numbers, b # 0
FDiv(x, y) == (x * FP) \div y

\* a * b on fixed-point numbers
FMul(x, y) == (x * y) \div FP

\* sum_{k >= n} (a/c)^(2k+1) / (2k+1) in LnUnit, given cur = (a/c)^(2n+1)
RECURSIVE AtanhSeries(_, _, _, _)
AtanhSeries(cur, a, c, n) ==
    IF cur = 0 THEN 0
    ELSE (cur \div (2 * n + 1)) + AtanhSeries((cur * a * a) \div (c * c), a, c, n + 1)

\* Math.log(p / q) for integers p > q > 0, as a fixed-point number:
\* ln(p/q) = 2 * atanh((p - q) / (p + q)).
MathLog(p, q) ==
    (2 * AtanhSeries(((p - q) * LnUnit) \div (p + q), p - q, p + q, 0)) \div (LnUnit \div FP)

\* ------------------------------------------------------------------------
\* Characters and strings
\* ------------------------------------------------------------------------

\* [一-龥]: the ideographs of the test corpus and of the queries.
CJK ==
    { "wu", "yu", "hei", "lian", "nai", "fan", "bai", "yan",
      "xian", "zhuo", "fen", "nu", "sheng", "qi", "bao", "zao",
      "kai", "xin", "gao", "xing", "kuai", "le", "fen4",
      "tang", "ping", "bai3", "lan4", "xian2", "yu2", "lan",
      "wo", "hen", "jin", "tian" }

\* [a-zA-Z0-9]
AsciiAlnum ==
    { "e", "m", "o", "t", "i", "c", "n", "E", "M", "O", "T", "I", "C", "N",
      "a", "x", "1" }

\* [一-龥a-zA-Z0-9]
WordChar == CJK \cup AsciiAlnum

\* the lower-case form of a character (RegExp flag i)
ToLower(ch) ==
    CASE ch = "E" -> "e" [] ch = "M" -> "m" [] ch = "O" -> "o" [] ch = "T" -> "t"
      [] ch = "I" -> "i" [] ch = "C" -> "c" [] ch = "N" -> "n" [] OTHER -> ch

\* String.prototype.slice(from, to) with 0-based from, exclusive to
Slice(s, from, to) == SubSeq(s, from + 1, to)

\* Array.prototype.flatMap(x => x) / join('') over a sequence of sequences
RECURSIVE Flatten(_)
Flatten(ss) == IF ss = <<>> THEN <<>> ELSE Head(ss) \o Flatten(Tail(ss))

\* Array.prototype.join(sep)
RECURSIVE Join(_, _)
Join(ss, sep) ==
    IF ss = <<>> THEN <<>>
    ELSE IF Len(ss) = 1 THEN Head(ss)
    ELSE Head(ss) \o sep \o Join(Tail(ss), sep)

\* the elements of a sequence
Range(s) == { s[i] : i \in DOMAIN s }

\* [...new Set(s)]: first occurrences, in insertion order
Dedup(s) == SelectSeq([i \in DOMAIN s |-> <<i, s[i]>>],
                      LAMBDA p : \A j \in 1..(p[1] - 1) : s[j] # p[2])

\* the second components of a sequence of pairs
Seconds(ps) == [i \in DOMAIN ps |-> ps[i][2]]

\* [...new Set(s)] as a sequence of the elements
Unique(s) == Seconds(Dedup(s))

\* the number of positions of s holding x
Count(s, x) == Cardinality({ i \in DOMAIN s : s[i] = x })

\* the maximal runs of characters of class Cls in s, left to right:
\* s.match(/[Cls]+/g) || []
RECURSIVE RunsFrom(_, _, _, _)
RunsFrom(s, i, cur, Cls) ==
    IF i > Len(s) THEN (IF cur = <<>> THEN <<>> ELSE <<cur>>)
    ELSE IF s[i] \in Cls THEN RunsFrom(s, i + 1, Append(cur, s[i]), Cls)
    ELSE (IF cur = <<>> THEN <<>> ELSE <<cur>>) \o RunsFrom(s, i + 1, <<>>, Cls)

Runs(s, Cls) == RunsFrom(s, 1, <<>>, Cls)

\* ------------------------------------------------------------------------
\* SearchEngine._tokenize
\* ------------------------------------------------------------------------

\* chunk.slice(i, i + len) for i = 0 .. chunk.length - len
NGrams(chunk, len) ==
    [i \in 1..(Len(chunk) - len + 1) |-> Slice(chunk, i - 1, i - 1 + len)]

\* the terms of a run with the n-grams stopping at length 3
ChunkTermsUpTo3(chunk) ==
    Flatten([n \in 1..2 |-> IF n + 1 <= Len(chunk) THEN NGrams(chunk, n + 1) ELSE <<>>])
      \o [i \in DOMAIN chunk |-> <<chunk[i]>>]

\* the terms pushed for one run of ideographs: the 2-, 3- and 4-grams
\* (len = 2 .. Math.min(4, chunk.length)), then every single character
ChunkTerms(chunk) ==
    Flatten([n \in 1..3 |-> IF n + 1 <= Len(chunk) THEN NGrams(chunk, n + 1) ELSE <<>>])
      \o [i \in DOMAIN chunk |-> <<chunk[i]>>]

\* _tokenize(text): the words of the cleaned text, then the terms of every
\* run of ideographs of the original text, without duplicates
Tokenize(text) ==
    LET words == Runs(text, WordChar)
        chineseChars == Runs(text, CJK)
    IN  Unique(words \o Flatten([i \in DOMAIN chineseChars |-> ChunkTerms(chineseChars[i])]))

\* ------------------------------------------------------------------------
\* SearchEngine.buildIndex
\* ------------------------------------------------------------------------

\* A Map as a function on its keys; Map.get(key) || 0
GetOr0(map, key) == IF key \in DOMAIN map THEN map[key] ELSE 0

\* keywords.flatMap(keyword => keyword.split(''))
SplitChars(keywords) == Flatten(keywords)

\* the Map built by counting the elements of a sequence
FreqMap(s) == [x \in Range(s) |-> Count(s, x)]

\* charToMultiCharKeywords: character -> the multi-character keywords
\* holding it, one entry per keyword occurrence, in keyword order
CharToMulti(multiCharKeywords) ==
    [ch \in UNION { Range(multiCharKeywords[i]) : i \in DOMAIN multiCharKeywords } |->
        SelectSeq(multiCharKeywords, LAMBDA kw : ch \in Range(kw))]

\* the document of one item (the callback of kaomojis.map);
\* item.weight || 1.0 and item.category || ''
MakeDoc(item) ==
    LET keywords == item.keywords
        chars == SplitChars(keywords)
        multiCharKeywords == SelectSeq(keywords, LAMBDA kw : Len(kw) >= 2)
    IN  [ kaomoji |-> item.kaomoji,
          keywords |-> keywords,
          chars |-> chars,
          keywordFreq |-> FreqMap(keywords),
          charFreq |-> FreqMap(chars),
          multiCharKeywords |-> multiCharKeywords,
          charToMultiCharKeywords |-> CharToMulti(multiCharKeywords),
          weight |-> IF item.weight = 0 THEN FP ELSE item.weight,
          category |-> item.category ]

\* the sum of f over the elements of a sequence (Array.prototype.reduce)
RECURSIVE SumSeq(_)
SumSeq(s) == IF s = <<>> THEN 0 ELSE Head(s) + SumSeq(Tail(s))

\* total / this.documents.length
Average(total, n) == IF n = 0 THEN NaN ELSE (total * FP) \div n

\* termDocCount: the number of documents having the keyword term
TermDocCount(docs, term) ==
    Cardinality({ i \in DOMAIN docs : term \in Range(docs[i].keywords) })

\* charDocCount: the number of documents having the character ch
CharDocCount(docs, ch) ==
    Cardinality({ i \in DOMAIN docs : ch \in Range(docs[i].chars) })

\* the idf formula without the added 1: Math.log((N - df + 0.5) / (df + 0.5))
IdfValueWithoutOne(N, df) ==
    IF 2 * N - 2 * df + 1 >= 2 * df + 1
    THEN MathLog(2 * N - 2 * df + 1, 2 * df + 1)
    ELSE 0 - MathLog(2 * df + 1, 2 * N - 2 * df + 1)

\* Math.log((N - df + 0.5) / (df + 0.5) + 1) = Math.log((2N + 2) / (2 df + 1))
IdfValue(N, df) == MathLog(2 * N + 2, 2 * df + 1)

\* Map.set of every pair of new into old: keys of old that new does not
\* set keep their value
MapSetAll(old, new) ==
    [x \in DOMAIN old \cup DOMAIN new |-> IF x \in DOMAIN new THEN new[x] ELSE old[x]]

\* _calculateIDF(): the idf and charIdf Maps after the call, given the
\* Maps before it; the Maps are not cleared
CalculateIDF(docs, idfBefore, charIdfBefore) ==
    LET N == Len(docs)
        terms == UNION { Range(docs[i].keywords) : i \in DOMAIN docs }
        chs == UNION { Range(docs[i].chars) : i \in DOMAIN docs }
    IN  [ idf |-> MapSetAll(idfBefore,
                     [t \in terms |-> IdfValue(N, TermDocCount(docs, t))]),
          charIdf |-> MapSetAll(charIdfBefore,
                     [ch \in chs |-> IdfValue(N, CharDocCount(docs, ch))]) ]


\* an item whose keywords cannot be spread ([...item.keywords] throws a
\* TypeError): keywords missing, null or not iterable, or the item itself
\* null or undefined
ItemThrows(item) == ~item.iterable

\* kaomojis.map(...) throws: kaomojis has no map method (it is not an
\* array), or the callback throws on some item
MapThrows(kaomojis) ==
    \/ ~kaomojis.isArray
    \/ \E i \in DOMAIN kaomojis.items : ItemThrows(kaomojis.items[i])

\* buildIndex that empties this.documents before mapping the argument
buildIndexResettingFirst(this, kaomojis) ==
    IF MapThrows(kaomojis)
    THEN [ threw |-> TRUE, engine |-> [this EXCEPT !.documents = <<>>] ]
    ELSE LET documents == [i \in DOMAIN kaomojis.items |-> MakeDoc(kaomojis.items[i])]
             totalLength == SumSeq([i \in DOMAIN documents |-> Len(documents[i].keywords)])
             totalCharLength == SumSeq([i \in DOMAIN documents |-> Len(documents[i].chars)])
             tables == CalculateIDF(documents, this.idf, this.charIdf)
         IN  [ threw |-> FALSE,
               engine |-> [ documents |-> documents,
                            avgDocLength |-> Average(totalLength, Len(documents)),
                            avgCharDocLength |-> Average(totalCharLength, Len(documents)),
                            idf |-> tables.idf,
                            charIdf |-> tables.charIdf ] ]

\* buildIndex(kaomojis) on the engine this: the engine after the call and
\* whether the call threw.  this.documents is assigned only once map has
\* returned, so a throwing call assigns nothing.
buildIndex(this, kaomojis) ==
    IF MapThrows(kaomojis)
    THEN [ threw |-> TRUE, engine |-> this ]
    ELSE LET documents == [i \in DOMAIN kaomojis.items |-> MakeDoc(kaomojis.items[i])]
             totalLength == SumSeq([i \in DOMAIN documents |-> Len(documents[i].keywords)])
             totalCharLength == SumSeq([i \in DOMAIN documents |-> Len(documents[i].chars)])
             tables == CalculateIDF(documents, this.idf, this.charIdf)
         IN  [ threw |-> FALSE,
               engine |-> [ documents |-> documents,
                            avgDocLength |-> Average(totalLength, Len(documents)),
                            avgCharDocLength |-> Average(totalCharLength, Len(documents)),
                            idf |-> tables.idf,
                            charIdf |-> tables.charIdf ] ]

\* the engine after the constructor
NewEngine ==
    [ documents |-> <<>>, avgDocLength |-> 0, avgCharDocLength |-> 0,
      idf |-> <<>>, charIdf |-> <<>> ]

\* ------------------------------------------------------------------------
\* SearchEngine._calculateBM25
\* ------------------------------------------------------------------------

\* idf * (tf * (k1 + 1)) / (tf + k1 * (1 - b + b * (docLength / avgLength)))
BM25Term(idfValue, tf, docLength, avgLength) ==
    LET numerator == tf * (k1 + FP)
        denominator == tf * FP + FMul(k1, FP - b + FMul(b, FDiv(docLength * FP, avgLength)))
    IN  FMul(idfValue, FDiv(numerator, denominator))

\* 1. the whole-word score: every query term that is a keyword of doc
WholeTermScore(this, queryTerms, doc) ==
    SumSeq([i \in DOMAIN queryTerms |->
        LET tf == GetOr0(doc.keywordFreq, queryTerms[i])
        IN  IF tf = 0 THEN 0
            ELSE BM25Term(GetOr0(this.idf, queryTerms[i]), tf,
                          Len(doc.keywords), this.avgDocLength)])

\* the summed frequency of the multi-character keywords of doc holding
\* the single character singleChar (a one-character string)
BorrowTf(doc, singleChar) ==
    LET matchingKeywords ==
            IF singleChar[1] \in DOMAIN doc.charToMultiCharKeywords
            THEN doc.charToMultiCharKeywords[singleChar[1]] ELSE <<>>
    IN  SumSeq([j \in DOMAIN matchingKeywords |-> GetOr0(doc.keywordFreq, matchingKeywords[j])])

\* this.idf.get(c) || this.charIdf.get(c) || 0
BorrowIdf(this, singleChar) ==
    IF GetOr0(this.idf, singleChar) # 0 THEN this.idf[singleChar]
    ELSE GetOr0(this.charIdf, singleChar[1])

\* 2. the single-character query terms found inside multi-character
\* keywords of doc, scored as whole words
BorrowScore(this, singleCharQueries, doc) ==
    SumSeq([i \in DOMAIN singleCharQueries |->
        LET tf == BorrowTf(doc, singleCharQueries[i])
        IN  IF tf > 0
            THEN BM25Term(BorrowIdf(this, singleCharQueries[i]), tf,
                          Len(doc.keywords), this.avgDocLength)
            ELSE 0])

\* scoredSingleChars: the characters credited in step 2
ScoredSingleChars(singleCharQueries, doc) ==
    { singleCharQueries[i][1] : i \in { j \in DOMAIN singleCharQueries :
                                         BorrowTf(doc, singleCharQueries[j]) > 0 } }

\* 3. the character score: every query character of doc not credited in
\* step 2
CharScore(this, queryChars, singleCharQueries, doc) ==
    SumSeq([i \in DOMAIN queryChars |->
        LET tf == GetOr0(doc.charFreq, queryChars[i])
        IN  IF queryChars[i] \in ScoredSingleChars(singleCharQueries, doc) \/ tf = 0
            THEN 0
            ELSE BM25Term(GetOr0(this.charIdf, queryChars[i]), tf,
                          Len(doc.chars), this.avgCharDocLength)])

\* _calculateBM25(queryTerms, queryChars, singleCharQueries, doc)
CalculateBM25(this, queryTerms, queryChars, singleCharQueries, doc) ==
    LET wholeWordScore == WholeTermScore(this, queryTerms, doc)
                            + BorrowScore(this, singleCharQueries, doc)
        charScore == CharScore(this, queryChars, singleCharQueries, doc)
        totalScore == wholeWordScore + FMul(charScore, charWeight)
    IN  FMul(totalScore, doc.weight)


\* ------------------------------------------------------------------------
\* SearchEngine.search and SearchEngine.exactMatch
\* ------------------------------------------------------------------------

\* Array.prototype.sort((a, b) => b.score - a.score): a stable sort by
\* non-increasing score; x goes after every element scoring at least x.score
RECURSIVE InsertByScore(_, _)
InsertByScore(sorted, x) ==
    IF sorted = <<>> THEN <<x>>
    ELSE IF Head(sorted).score >= x.score
         THEN <<Head(sorted)>> \o InsertByScore(Tail(sorted), x)
         ELSE <<x>> \o sorted

RECURSIVE SortByScore(_)
SortByScore(s) ==
    IF s = <<>> THEN <<>>
    ELSE InsertByScore(SortByScore(SubSeq(s, 1, Len(s) - 1)), s[Len(s)])

\* a sort by non-increasing score that puts equal scores in reverse order
SortByScoreReversingTies(s) ==
    SortByScore([i \in DOMAIN s |-> s[Len(s) + 1 - i]])

\* Array.prototype.slice(0, n) for n >= 0
Take(s, n) == SubSeq(s, 1, IF n < Len(s) THEN n ELSE Len(s))

\* the result object of one document for the query terms
ScoreDoc(this, queryTerms, doc) ==
    LET queryChars == Unique(Flatten(queryTerms))
        singleCharQueries == SelectSeq(queryTerms, LAMBDA term : Len(term) = 1)
    IN  [ kaomoji |-> doc.kaomoji,
          score |-> CalculateBM25(this, queryTerms, queryChars, singleCharQueries, doc),
          matchedKeywords |-> SelectSeq(doc.keywords, LAMBDA k : k \in Range(queryTerms)),
          category |-> doc.category ]

\* results.filter with the comparison r.score >= threshold
AboveThresholdInclusive(results, threshold) ==
    SelectSeq(results, LAMBDA r : r.score >= threshold)

\* a filter that also asks for a whole keyword among the query terms
AboveThresholdMatched(results, threshold) ==
    SelectSeq(results, LAMBDA r : r.score > threshold /\ r.matchedKeywords # <<>>)

\* results.filter(r => r.score > threshold)
AboveThreshold(results, threshold) == SelectSeq(results, LAMBDA r : r.score > threshold)

\* search without the early return on an empty term list
searchWithoutEmptyQueryGuard(this, text, topK, threshold) ==
    IF text = <<>> \/ Len(this.documents) = 0 THEN <<>>
    ELSE LET queryTerms == Tokenize(text)
             results == [i \in DOMAIN this.documents |->
                            ScoreDoc(this, queryTerms, this.documents[i])]
         IN  Take(SortByScore(AboveThreshold(results, threshold)), topK)

\* search sorting equal scores in reverse corpus order
searchReversingTies(this, text, topK, threshold) ==
    IF text = <<>> \/ Len(this.documents) = 0 THEN <<>>
    ELSE LET queryTerms == Tokenize(text)
         IN  IF Len(queryTerms) = 0 THEN <<>>
             ELSE LET results == [i \in DOMAIN this.documents |->
                                     ScoreDoc(this, queryTerms, this.documents[i])]
                  IN  Take(SortByScoreReversingTies(AboveThreshold(results, threshold)), topK)

\* the characters credited in step 2 for any of the first n documents
ScoredSoFar(singleCharQueries, docs, n) ==
    UNION { ScoredSingleChars(singleCharQueries, docs[j]) : j \in 1..n }

\* the score of docs[n] when scoredSingleChars is one set for the whole
\* search instead of one set per document
ScoreSharingConsumed(this, queryTerms, docs, n) ==
    LET queryChars == Unique(Flatten(queryTerms))
        singleCharQueries == SelectSeq(queryTerms, LAMBDA term : Len(term) = 1)
        doc == docs[n]
        charScore ==
            SumSeq([i \in DOMAIN queryChars |->
                LET tf == GetOr0(doc.charFreq, queryChars[i])
                IN  IF queryChars[i] \in ScoredSoFar(singleCharQueries, docs, n) \/ tf = 0
                    THEN 0
                    ELSE BM25Term(GetOr0(this.charIdf, queryChars[i]), tf,
                                  Len(doc.chars), this.avgCharDocLength)])
        wholeWordScore == WholeTermScore(this, queryTerms, doc)
                            + BorrowScore(this, singleCharQueries, doc)
    IN  [ kaomoji |-> doc.kaomoji,
          score |-> FMul(wholeWordScore + FMul(charScore, charWeight), doc.weight),
          matchedKeywords |-> SelectSeq(doc.keywords, LAMBDA k : k \in Range(queryTerms)),
          category |-> doc.category ]

\* search with scoredSingleChars kept across the documents of one search
searchSharingConsumed(this, text, topK, threshold) ==
    IF text = <<>> \/ Len(this.documents) = 0 THEN <<>>
    ELSE LET queryTerms == Tokenize(text)
         IN  IF Len(queryTerms) = 0 THEN <<>>
             ELSE LET results == [i \in DOMAIN this.documents |->
                                     ScoreSharingConsumed(this, queryTerms, this.documents, i)]
                  IN  Take(SortByScore(AboveThreshold(results, threshold)), topK)

\* search(text, topK, threshold)
search(this, text, topK, threshold) ==
    IF text = <<>> \/ Len(this.documents) = 0 THEN <<>>
    ELSE LET queryTerms == Tokenize(text)
         IN  IF Len(queryTerms) = 0 THEN <<>>
             ELSE LET results == [i \in DOMAIN this.documents |->
                                     ScoreDoc(this, queryTerms, this.documents[i])]
                  IN  Take(SortByScore(AboveThreshold(results, threshold)), topK)

\* a keyword test that asks for the whole text instead of a substring
IncludesWholeText(text, keyword) == text = keyword

\* String.prototype.includes
Includes(text, keyword) ==
    \E i \in 0..(Len(text) - Len(keyword)) : Slice(text, i, i + Len(keyword)) = keyword

\* the result object of exactMatch for one document
ExactDoc(text, doc) ==
    LET matchedKeywords == SelectSeq(doc.keywords, LAMBDA keyword : Includes(text, keyword))
    IN  [ kaomoji |-> doc.kaomoji,
          matchedKeywords |-> matchedKeywords,
          score |-> Len(matchedKeywords) * doc.weight,
          category |-> doc.category ]

\* exactMatch(text)
exactMatch(this, text) ==
    SortByScore(SelectSeq([i \in DOMAIN this.documents |-> ExactDoc(text, this.documents[i])],
                          LAMBDA r : Len(r.matchedKeywords) > 0))


\* ------------------------------------------------------------------------
\* EmoticonReplacer
\* ------------------------------------------------------------------------

\* null, and a value that may be null
Null == <<>>
Some(x) == <<x>>

\* the characters String.prototype.trim removes
WhiteSpace == { " " }

\* markerPattern /\[emoticon:([^\]]+)\]/gi: its literal prefix "[emoticon:"
MarkerPrefix == <<"[", "e", "m", "o", "t", "i", "c", "o", "n", ":">>

\* this.config after the constructor
DefaultConfig ==
    [ markerPattern |-> [ prefix |-> MarkerPrefix, ignoreCase |-> TRUE, global |-> TRUE ],
      keywordSeparator |-> <<",">>,
      replaceStrategy |-> "best" ]

\* the prefix compared without the i flag
PrefixAtCaseSensitive(pattern, text, i) ==
    /\ i + Len(pattern.prefix) <= Len(text)
    /\ \A j \in DOMAIN pattern.prefix : text[i + j] = pattern.prefix[j]

\* the pattern's literal prefix matches text at 0-based position i
PrefixAt(pattern, text, i) ==
    /\ i + Len(pattern.prefix) <= Len(text)
    /\ \A j \in DOMAIN pattern.prefix :
          IF pattern.ignoreCase
          THEN ToLower(text[i + j]) = ToLower(pattern.prefix[j])
          ELSE text[i + j] = pattern.prefix[j]

\* the 0-based position of the first "]" of text at or after position i,
\* Len(text) when there is none
RECURSIVE FirstClose(_, _)
FirstClose(text, i) ==
    IF i >= Len(text) \/ text[i + 1] = "]" THEN i ELSE FirstClose(text, i + 1)

\* the match of the pattern at 0-based position i: the position after it,
\* or NoMatch.  ([^\]]+) takes the characters up to the first "]", at
\* least one, and "]" must follow.
NoMatch == 0 - 1

MatchAt(pattern, text, i) ==
    IF ~PrefixAt(pattern, text, i) THEN NoMatch
    ELSE LET from == i + Len(pattern.prefix)
             close == FirstClose(text, from)
         IN  IF close > from /\ close < Len(text) THEN close + 1 ELSE NoMatch

\* String.prototype.split(sep) for a non-empty separator
RECURSIVE SplitFrom(_, _, _, _)
SplitFrom(s, i, cur, sep) ==
    IF i >= Len(s) THEN <<cur>>
    ELSE IF i + Len(sep) <= Len(s) /\ Slice(s, i, i + Len(sep)) = sep
         THEN <<cur>> \o SplitFrom(s, i + Len(sep), <<>>, sep)
         ELSE SplitFrom(s, i + 1, Append(cur, s[i + 1]), sep)

Split(s, sep) == SplitFrom(s, 0, <<>>, sep)

\* String.prototype.trim
RECURSIVE TrimLeft(_)
TrimLeft(s) == IF s # <<>> /\ Head(s) \in WhiteSpace THEN TrimLeft(Tail(s)) ELSE s

RECURSIVE TrimRight(_)
TrimRight(s) ==
    IF s # <<>> /\ s[Len(s)] \in WhiteSpace THEN TrimRight(SubSeq(s, 1, Len(s) - 1)) ELSE s

Trim(s) == TrimRight(TrimLeft(s))

\* keywordsStr.split(separator).map(k => k.trim()).filter(k => k.length > 0)
ParseKeywords(keywordsStr, separator) ==
    LET parts == Split(keywordsStr, separator)
    IN  SelectSeq([i \in DOMAIN parts |-> Trim(parts[i])], LAMBDA k : Len(k) > 0)

\* the strategy of a call: options.strategy, this.config.replaceStrategy by default
StrategyOf(config, options) ==
    IF options.strategy = "undefined" THEN config.replaceStrategy ELSE options.strategy

\* the selection with a space put on both sides of the chosen payload
SelectReplacementPadded(strategy, matches) ==
    IF strategy = "all"
    THEN [ replacement |-> Join([i \in DOMAIN matches |-> matches[i].kaomoji], <<" ">>),
           selected |-> [ isArray |-> TRUE, items |-> matches ] ]
    ELSE [ replacement |-> <<" ">> \o matches[1].kaomoji \o <<" ">>,
           selected |-> [ isArray |-> FALSE, items |-> <<matches[1]>> ] ]

\* the selection with 'all' joining the payloads without a separator
SelectReplacementJoinedBare(strategy, matches) ==
    IF strategy = "all"
    THEN [ replacement |-> Join([i \in DOMAIN matches |-> matches[i].kaomoji], <<>>),
           selected |-> [ isArray |-> TRUE, items |-> matches ] ]
    ELSE [ replacement |-> matches[1].kaomoji,
           selected |-> [ isArray |-> FALSE, items |-> <<matches[1]>> ] ]

\* the replacement chosen from a non-empty result list.
\* The results carry the payload under the name the engine gives it.
SelectReplacement(strategy, matches) ==
    IF strategy = "all"
    THEN [ replacement |-> Join([i \in DOMAIN matches |-> matches[i].kaomoji], <<" ">>),
           selected |-> [ isArray |-> TRUE, items |-> matches ] ]
    ELSE [ replacement |-> matches[1].kaomoji,
           selected |-> [ isArray |-> FALSE, items |-> <<matches[1]>> ] ]

\* the not-found text with keepOriginalOnNotFound tested before markNotFound
NotFoundTextKeepFirst(options, match, keywordsStr) ==
    IF options.keepOriginalOnNotFound THEN match
    ELSE IF options.markNotFound THEN <<"[", "?">> \o keywordsStr \o <<"]">>
    ELSE <<>>

\* the text returned for a marker without result
NotFoundText(options, match, keywordsStr) ==
    IF options.markNotFound THEN <<"[", "?">> \o keywordsStr \o <<"]">>
    ELSE IF options.keepOriginalOnNotFound THEN match ELSE <<>>

\* topK of the search issued for a marker
MarkerTopK == 5

\* the replace callback numbering its records from 1 (++matchIndex)
MarkerCallbackPreIncrement(this, config, options, match, keywordsStr, offset, matchIndex) ==
    LET keywords == ParseKeywords(keywordsStr, config.keywordSeparator)
    IN  IF Len(keywords) = 0
        THEN [ text |-> IF options.keepOriginalOnNotFound THEN match ELSE <<>>,
               records |-> <<>> ]
        ELSE LET searchText == Join(keywords, <<" ">>)
                 matches == search(this, searchText, MarkerTopK, options.threshold)
             IN  IF Len(matches) > 0
                 THEN LET sel == SelectReplacement(StrategyOf(config, options), matches)
                      IN  [ text |-> sel.replacement,
                            records |-> << [ index |-> matchIndex + 1,
                                             original |-> match,
                                             keywords |-> keywords,
                                             emoticon |-> Some(sel.replacement),
                                             offset |-> offset,
                                             matches |-> matches,
                                             selected |-> sel.selected,
                                             notFound |-> FALSE ] >> ]
                 ELSE [ text |-> NotFoundText(options, match, keywordsStr),
                        records |-> << [ index |-> matchIndex + 1,
                                         original |-> match,
                                         keywords |-> keywords,
                                         emoticon |-> Null,
                                         offset |-> offset,
                                         matches |-> <<>>,
                                         selected |-> [ isArray |-> FALSE, items |-> <<>> ],
                                         notFound |-> TRUE ] >> ]

\* the callback applying markNotFound to a marker without keywords as well
MarkerCallbackMarkingEmpty(this, config, options, match, keywordsStr, offset, matchIndex) ==
    LET keywords == ParseKeywords(keywordsStr, config.keywordSeparator)
    IN  IF Len(keywords) = 0
        THEN [ text |-> NotFoundText(options, match, keywordsStr),
               records |-> <<>> ]
        ELSE LET searchText == Join(keywords, <<" ">>)
                 matches == search(this, searchText, MarkerTopK, options.threshold)
             IN  IF Len(matches) > 0
                 THEN LET sel == SelectReplacement(StrategyOf(config, options), matches)
                      IN  [ text |-> sel.replacement,
                            records |-> << [ index |-> matchIndex,
                                             original |-> match,
                                             keywords |-> keywords,
                                             emoticon |-> Some(sel.replacement),
                                             offset |-> offset,
                                             matches |-> matches,
                                             selected |-> sel.selected,
                                             notFound |-> FALSE ] >> ]
                 ELSE [ text |-> NotFoundText(options, match, keywordsStr),
                        records |-> << [ index |-> matchIndex,
                                         original |-> match,
                                         keywords |-> keywords,
                                         emoticon |-> Null,
                                         offset |-> offset,
                                         matches |-> <<>>,
                                         selected |-> [ isArray |-> FALSE, items |-> <<>> ],
                                         notFound |-> TRUE ] >> ]

\* the replace callback for one marker occurrence: the text put in its
\* place and the records pushed (none or one)
MarkerCallback(this, config, options, match, keywordsStr, offset, matchIndex) ==
    LET keywords == ParseKeywords(keywordsStr, config.keywordSeparator)
    IN  IF Len(keywords) = 0
        THEN [ text |-> IF options.keepOriginalOnNotFound THEN match ELSE <<>>,
               records |-> <<>> ]
        ELSE LET searchText == Join(keywords, <<" ">>)
                 matches == search(this, searchText, MarkerTopK, options.threshold)
             IN  IF Len(matches) > 0
                 THEN LET sel == SelectReplacement(StrategyOf(config, options), matches)
                      IN  [ text |-> sel.replacement,
                            records |-> << [ index |-> matchIndex,
                                             original |-> match,
                                             keywords |-> keywords,
                                             emoticon |-> Some(sel.replacement),
                                             offset |-> offset,
                                             matches |-> matches,
                                             selected |-> sel.selected,
                                             notFound |-> FALSE ] >> ]
                 ELSE [ text |-> NotFoundText(options, match, keywordsStr),
                        records |-> << [ index |-> matchIndex,
                                         original |-> match,
                                         keywords |-> keywords,
                                         emoticon |-> Null,
                                         offset |-> offset,
                                         matches |-> <<>>,
                                         selected |-> [ isArray |-> FALSE, items |-> <<>> ],
                                         notFound |-> TRUE ] >> ]

\* text.replace(markerPattern, callback) from 0-based position i on: the
\* text produced and the records pushed, given the records pushed so far
RECURSIVE ReplaceFrom(_, _, _, _, _, _)
ReplaceFrom(this, config, options, text, i, replacements) ==
    IF i >= Len(text) THEN [ text |-> <<>>, replacements |-> replacements ]
    ELSE LET end == MatchAt(config.markerPattern, text, i)
         IN  IF end = NoMatch
             THEN LET rest == ReplaceFrom(this, config, options, text, i + 1, replacements)
                  IN  [ text |-> <<text[i + 1]>> \o rest.text,
                        replacements |-> rest.replacements ]
             ELSE LET match == Slice(text, i, end)
                      keywordsStr == Slice(text, i + Len(config.markerPattern.prefix), end - 1)
                      cb == MarkerCallback(this, config, options, match, keywordsStr, i,
                                           Len(replacements))
                      rest == ReplaceFrom(this, config, options, text, end,
                                          replacements \o cb.records)
                  IN  [ text |-> cb.text \o rest.text,
                        replacements |-> rest.replacements ]

\* replaceText returning the input text in place of the rewritten one
replaceTextReturningInput(this, config, text, options) ==
    LET done == ReplaceFrom(this, config, options, text, 0, <<>>)
    IN  [ text |-> text,
          replacements |-> done.replacements,
          originalText |-> text,
          hasReplacements |-> Len(done.replacements) > 0,
          successCount |-> Len(SelectSeq(done.replacements, LAMBDA r : ~r.notFound)),
          failureCount |-> Len(SelectSeq(done.replacements, LAMBDA r : r.notFound)) ]

\* replaceText(text, options)
replaceText(this, config, text, options) ==
    LET done == ReplaceFrom(this, config, options, text, 0, <<>>)
    IN  [ text |-> done.text,
          replacements |-> done.replacements,
          originalText |-> text,
          hasReplacements |-> Len(done.replacements) > 0,
          successCount |-> Len(SelectSeq(done.replacements, LAMBDA r : ~r.notFound)),
          failureCount |-> Len(SelectSeq(done.replacements, LAMBDA r : r.notFound)) ]


\* the exec loop of preview from 0-based position i on: one entry per
\* match of the pattern, found by regex.exec from lastIndex
RECURSIVE PreviewFrom(_, _, _, _)
PreviewFrom(this, config, text, i) ==
    IF i >= Len(text) THEN <<>>
    ELSE LET end == MatchAt(config.markerPattern, text, i)
         IN  IF end = NoMatch THEN PreviewFrom(this, config, text, i + 1)
             ELSE LET keywordsStr == Slice(text, i + Len(config.markerPattern.prefix), end - 1)
                      keywords == ParseKeywords(keywordsStr, config.keywordSeparator)
                      searchText == Join(keywords, <<" ">>)
                      matches == search(this, searchText, MarkerTopK, 0)
                  IN  << [ marker |-> Slice(text, i, end),
                           keywords |-> keywords,
                           offset |-> i,
                           matches |-> matches,
                           bestMatch |-> IF Len(matches) > 0 THEN Some(matches[1])
                                         ELSE Null ] >>
                      \o PreviewFrom(this, config, text, end)

\* preview keeping only the first candidate of every marker
previewBestOnly(this, config, text) ==
    LET all == PreviewFrom(this, config, text, 0)
    IN  [ i \in DOMAIN all |-> [ all[i] EXCEPT !.matches = Take(all[i].matches, 1) ] ]

\* preview(text)
preview(this, config, text) == PreviewFrom(this, config, text, 0)

\* ------------------------------------------------------------------------
\* KaomojiDataManager
\* ------------------------------------------------------------------------

\* JavaScript values given to the manager: undefined, null, strings,
\* numbers (fixed point, and Infinity), arrays and item objects
Undefined == [ t |-> "undefined" ]
JsNull == [ t |-> "null" ]
Str(s) == [ t |-> "string", v |-> s ]
Num(n) == [ t |-> "number", v |-> n ]
Infinity == [ t |-> "infinity" ]
Arr(items) == [ t |-> "array", v |-> items ]
Obj(kaomoji, keywords, weight, category) ==
    [ t |-> "object", kaomoji |-> kaomoji, keywords |-> keywords,
      weight |-> weight, category |-> category ]

\* typeof x === 'number'
IsNumber(x) == x.t \in { "number", "infinity" }

\* !x for the values above: undefined, null, '' and 0 are falsy
Falsy(x) ==
    \/ x.t \in { "undefined", "null" }
    \/ (x.t = "string" /\ x.v = <<>>)
    \/ (x.t = "number" /\ x.v = 0)

\* the heap: the objects alive, by address.  An entry object holds the
\* address of its keywords array.
EmptyHeap == <<>>

\* the address given to the next object created
FreshAddress(h) ==
    CHOOSE a \in 1..(Cardinality(DOMAIN h) + 1) :
        a \notin DOMAIN h /\ \A c \in 1..(a - 1) : c \in DOMAIN h

\* the heap with object obj created at address a
Store(h, a, obj) == [ x \in DOMAIN h \cup {a} |-> IF x = a THEN obj ELSE h[x] ]

\* new KaomojiDataManager(): this.kaomojis = []
NewManager == [ kaomojis |-> <<>>, heap |-> EmptyHeap ]

\* _validateItem(item, index) for an item object
ValidateItem(item) ==
    /\ ~(Falsy(item.kaomoji) \/ item.kaomoji.t # "string")
    /\ ~(Falsy(item.keywords) \/ item.keywords.t # "array" \/ Len(item.keywords.v) = 0)

\* item.keywords.map(k => String(k).trim()).filter(k => k.length > 0), for
\* keywords that are strings
NormalizeKeywords(keywords) ==
    SelectSeq([i \in DOMAIN keywords |-> Trim(keywords[i].v)], LAMBDA k : Len(k) > 0)

\* the default weight 1.0
DefaultWeight == Num(FP)

\* _normalizeItem(item): the entry object and its keywords array, created
\* on heap h; the address of the entry is returned with the heap
NormalizeItem(h, item) ==
    LET ka == FreshAddress(h)
        h1 == Store(h, ka, NormalizeKeywords(item.keywords.v))
        ea == FreshAddress(h1)
        entry == [ kaomoji |-> item.kaomoji.v,
                   keywords |-> ka,
                   weight |-> IF IsNumber(item.weight) THEN item.weight ELSE DefaultWeight,
                   category |-> IF Falsy(item.category) THEN <<>> ELSE item.category.v ]
    IN  [ heap |-> Store(h1, ea, entry), address |-> ea ]

\* reading a property of the item throws (the item is null or undefined)
ItemReadThrows(item) == item.t \in { "null", "undefined" }

\* data.forEach(...) of loadFromArray from item i on, for a manager whose
\* list already holds the entries pushed so far; stops at the first throw
RECURSIVE LoadItems(_, _, _)
LoadItems(this, data, i) ==
    IF i > Len(data) THEN [ threw |-> FALSE, manager |-> this ]
    ELSE IF ItemReadThrows(data[i]) THEN [ threw |-> TRUE, manager |-> this ]
    ELSE IF ValidateItem(data[i])
         THEN LET made == NormalizeItem(this.heap, data[i])
              IN  LoadItems([ kaomojis |-> Append(this.kaomojis, made.address),
                              heap |-> made.heap ], data, i + 1)
         ELSE LoadItems(this, data, i + 1)

\* loadFromArray without this.kaomojis = []: the items are added to the
\* entries already held
loadFromArrayAppending(this, data) ==
    IF data.t # "array" THEN [ threw |-> TRUE, manager |-> this ]
    ELSE LoadItems(this, data.v, 1)

\* loadFromArray(data): throws when data is not an array, before anything
\* is changed; otherwise empties the list and loads the items
loadFromArray(this, data) ==
    IF data.t # "array" THEN [ threw |-> TRUE, manager |-> this ]
    ELSE LoadItems([ kaomojis |-> <<>>, heap |-> this.heap ], data.v, 1)

\* JSON.stringify of a stored weight: a finite number as it is, Infinity
\* as null
StringifyNumber(w) == IF w.t = "infinity" THEN JsNull ELSE w

\* exportToJSON(): JSON.stringify(this.kaomojis), the JSON text given by
\* the value it denotes
exportToJSON(this) ==
    [ valid |-> TRUE,
      value |-> Arr([ i \in DOMAIN this.kaomojis |->
                        LET e == this.heap[this.kaomojis[i]]
                        IN  Obj(Str(e.kaomoji),
                                Arr([ j \in DOMAIN this.heap[e.keywords] |->
                                        Str(this.heap[e.keywords][j]) ]),
                                StringifyNumber(e.weight),
                                Str(e.category)) ]) ]

\* a string that is not JSON
InvalidJSON == [ valid |-> FALSE, value |-> Undefined ]

\* loadFromJSON(jsonString): JSON.parse, then loadFromArray; whatever is
\* thrown inside the try block is thrown again as 'Invalid JSON format'
loadFromJSON(this, jsonString) ==
    IF ~jsonString.valid THEN [ threw |-> TRUE, manager |-> this ]
    ELSE loadFromArray(this, jsonString.value)

\* _deepCopy with the keywords array shared with the stored entry
DeepCopyShallow(h, a) ==
    LET ea == FreshAddress(h)
    IN  [ heap |-> Store(h, ea, h[a]), address |-> ea ]

\* _deepCopy(item): a new entry object with a new keywords array
DeepCopy(h, a) ==
    LET ka == FreshAddress(h)
        h1 == Store(h, ka, h[h[a].keywords])
        ea == FreshAddress(h1)
    IN  [ heap |-> Store(h1, ea, [ h[a] EXCEPT !.keywords = ka ]), address |-> ea ]

\* items.map(item => this._deepCopy(item)): the copies, in order
RECURSIVE CopyAll(_, _)
CopyAll(h, items) ==
    IF items = <<>> THEN [ heap |-> h, addresses |-> <<>> ]
    ELSE LET first == DeepCopy(h, Head(items))
             rest == CopyAll(first.heap, Tail(items))
         IN  [ heap |-> rest.heap, addresses |-> <<first.address>> \o rest.addresses ]

\* this.kaomojis.find(item => item.kaomoji === kaomoji): the positions
\* holding the text, the first of them being the one found
PositionsOf(this, kaomoji) ==
    { i \in DOMAIN this.kaomojis : this.heap[this.kaomojis[i]].kaomoji = kaomoji }

Found(this, kaomoji) ==
    this.kaomojis[CHOOSE i \in PositionsOf(this, kaomoji) :
                      \A j \in PositionsOf(this, kaomoji) : i <= j]

\* getAllKaomojis()
getAllKaomojis(this) ==
    LET copies == CopyAll(this.heap, this.kaomojis)
    IN  [ heap |-> copies.heap, value |-> [ t |-> "entries", v |-> copies.addresses ] ]

\* getKaomojiByText(kaomoji)
getKaomojiByText(this, kaomoji) ==
    IF PositionsOf(this, kaomoji) = {} THEN [ heap |-> this.heap, value |-> JsNull ]
    ELSE LET copy == DeepCopy(this.heap, Found(this, kaomoji))
         IN  [ heap |-> copy.heap, value |-> [ t |-> "entries", v |-> <<copy.address>> ] ]

\* getKeywordsByKaomoji(kaomoji): a new array in both cases
getKeywordsByKaomoji(this, kaomoji) ==
    LET ka == FreshAddress(this.heap)
        items == IF PositionsOf(this, kaomoji) = {} THEN <<>>
                 ELSE this.heap[this.heap[Found(this, kaomoji)].keywords]
    IN  [ heap |-> Store(this.heap, ka, items), value |-> [ t |-> "keywords", v |-> ka ] ]

\* filterByCategory(category), for a list of categories
filterByCategory(this, categories) ==
    LET copies == CopyAll(this.heap,
                          SelectSeq(this.kaomojis,
                                    LAMBDA a : this.heap[a].category \in Range(categories)))
    IN  [ heap |-> copies.heap, value |-> [ t |-> "entries", v |-> copies.addresses ] ]

\* findByKeyword(keyword), for a list of keywords all of which must be held
findByKeyword(this, keywords) ==
    LET copies == CopyAll(this.heap,
                          SelectSeq(this.kaomojis,
                                    LAMBDA a : \A i \in DOMAIN keywords :
                                        keywords[i] \in Range(this.heap[this.heap[a].keywords])))
    IN  [ heap |-> copies.heap, value |-> [ t |-> "entries", v |-> copies.addresses ] ]

\* exportToArray(): ({ ...item, keywords: [...item.keywords] }) for every entry
exportToArray(this) ==
    LET copies == CopyAll(this.heap, this.kaomojis)
    IN  [ heap |-> copies.heap, value |-> [ t |-> "entries", v |-> copies.addresses ] ]

\* the manager with the object at address a replaced
WithObject(this, a, obj) == [ this EXCEPT !.heap = Store(this.heap, a, obj) ]

\* addKeyword(kaomoji, keyword), for a keyword that is a string
addKeyword(this, kaomoji, keyword) ==
    IF PositionsOf(this, kaomoji) = {} THEN [ manager |-> this, value |-> FALSE ]
    ELSE LET item == this.heap[Found(this, kaomoji)]
             trimmedKeyword == Trim(keyword)
         IN  IF trimmedKeyword = <<>> THEN [ manager |-> this, value |-> FALSE ]
             ELSE IF trimmedKeyword \in Range(this.heap[item.keywords])
                  THEN [ manager |-> this, value |-> FALSE ]
                  ELSE [ manager |-> WithObject(this, item.keywords,
                                                Append(this.heap[item.keywords], trimmedKeyword)),
                         value |-> TRUE ]

\* s without its element at position i: Array.prototype.splice(i, 1)
RemoveAt(s, i) == SubSeq(s, 1, i - 1) \o SubSeq(s, i + 1, Len(s))

\* removeKeyword(kaomoji, keyword)
removeKeyword(this, kaomoji, keyword) ==
    IF PositionsOf(this, kaomoji) = {} THEN [ manager |-> this, value |-> FALSE ]
    ELSE LET item == this.heap[Found(this, kaomoji)]
             held == this.heap[item.keywords]
         IN  IF keyword \notin Range(held) THEN [ manager |-> this, value |-> FALSE ]
             ELSE IF Len(held) <= 1 THEN [ manager |-> this, value |-> FALSE ]
                  ELSE LET index == CHOOSE i \in DOMAIN held :
                                        held[i] = keyword
                                        /\ \A j \in 1..(i - 1) : held[j] # keyword
                       IN  [ manager |-> WithObject(this, item.keywords, RemoveAt(held, index)),
                             value |-> TRUE ]

\* setCategory(kaomoji, category): item.category = category || ''
setCategory(this, kaomoji, category) ==
    IF PositionsOf(this, kaomoji) = {} THEN [ manager |-> this, value |-> FALSE ]
    ELSE LET a == Found(this, kaomoji)
         IN  [ manager |-> WithObject(this, a,
                               [ this.heap[a] EXCEPT
                                   !.category = IF Falsy(category) THEN <<>> ELSE category.v ]),
               value |-> TRUE ]

\* weight > 0 for a number
Positive(weight) == weight.t = "infinity" \/ (weight.t = "number" /\ weight.v > 0)

\* setWeight(kaomoji, weight)
setWeight(this, kaomoji, weight) ==
    IF PositionsOf(this, kaomoji) = {} THEN [ manager |-> this, value |-> FALSE ]
    ELSE IF ~IsNumber(weight) \/ ~Positive(weight) THEN [ manager |-> this, value |-> FALSE ]
    ELSE LET a == Found(this, kaomoji)
         IN  [ manager |-> WithObject(this, a, [ this.heap[a] EXCEPT !.weight = weight ]),
               value |-> TRUE ]

\* clear()
clear(this) == [ this EXCEPT !.kaomojis = <<>> ]

\* the objects still referred to: the stored entries, the entries and the
\* arrays held by the caller, and the keywords arrays of those entries
Live(h, entries, arrays) == entries \cup { h[a].keywords : a \in entries } \cup arrays

\* the heap without the objects nothing refers to
Collect(h, entries, arrays) == [ a \in Live(h, entries, arrays) |-> h[a] ]

\* The array this.documents of the engine, when the index was built from
\* data held on the heap: the object at DocumentsAddress holds, for every
\* document, the address of the array doc.keywords refers to.
DocumentsAddress == 0

\* the objects the engine refers to
IndexArrays(h) ==
    IF DocumentsAddress \in DOMAIN h
    THEN { DocumentsAddress } \cup Range(h[DocumentsAddress])
    ELSE {}

\* the item object at address e as the callback of kaomojis.map reads it
ItemAt(h, e) ==
    [ kaomoji |-> h[e].kaomoji, keywords |-> h[h[e].keywords], weight |-> h[e].weight.v,
      category |-> h[e].category, iterable |-> TRUE ]

\* keywords: item.keywords, the array of the item itself
ShareKeywords(h, e) == [ heap |-> h, address |-> h[e].keywords ]

\* const keywords = [...item.keywords]: a new array on the heap
SpreadKeywords(h, e) ==
    [ heap |-> Store(h, FreshAddress(h), h[h[e].keywords]), address |-> FreshAddress(h) ]

\* kaomojis.map(...): the keywords array of every document, in order
RECURSIVE MapKeywords(_, _)
MapKeywords(h, entries) ==
    IF entries = <<>> THEN [ heap |-> h, addresses |-> <<>> ]
    ELSE LET first == SpreadKeywords(h, Head(entries))
             rest == MapKeywords(first.heap, Tail(entries))
         IN  [ heap |-> rest.heap, addresses |-> <<first.address>> \o rest.addresses ]

\* the documents as the engine reads them: doc.keywords is read through
\* its reference, the other properties are values of the document itself
Referred(h, docs) ==
    IF DocumentsAddress \notin DOMAIN h THEN docs
    ELSE [ i \in DOMAIN docs |-> [ docs[i] EXCEPT !.keywords = h[h[DocumentsAddress][i]] ] ]

\* ------------------------------------------------------------------------
\* EmoticonReplacerExtension (chat integration)
\* ------------------------------------------------------------------------

\* message.extra: undefined, null, or an object whose properties
\* display_text and emoticon_original are absent (Null) or hold a text
NoExtra == [ t |-> "undefined", display_text |-> Null, emoticon_original |-> Null ]
NullExtra == [ t |-> "null", display_text |-> Null, emoticon_original |-> Null ]
EmptyExtra == [ t |-> "object", display_text |-> Null, emoticon_original |-> Null ]

\* this.settings after the constructor
DefaultSettings ==
    [ enabled |-> TRUE, autoProcess |-> TRUE, modifyMode |-> "display",
      processUserMessages |-> FALSE, processAIMessages |-> TRUE,
      replaceStrategy |-> "best", keepOriginalOnNotFound |-> TRUE,
      markNotFound |-> FALSE ]

\* shouldProcessMessage(message)
shouldProcessMessage(settings, message) ==
    IF message.is_system THEN FALSE
    ELSE IF message.is_user /\ ~settings.processUserMessages THEN FALSE
    ELSE IF ~message.is_user /\ ~settings.processAIMessages THEN FALSE
    ELSE TRUE

\* !message.extra.emoticon_original: the property is absent or ''
NoBackup(extra) == extra.emoticon_original = Null \/ extra.emoticon_original = Some(<<>>)

\* modifyMessageDisplay writing the replaced text into message.mes as well
modifyMessageDisplayWritingMes(message, displayContent, originalContent) ==
    IF message.extra.t = "null" THEN [ threw |-> TRUE, message |-> message ]
    ELSE LET extra == IF message.extra.t # "object" THEN EmptyExtra ELSE message.extra
             backed == IF NoBackup(extra)
                       THEN [ extra EXCEPT !.emoticon_original = Some(originalContent) ]
                       ELSE extra
         IN  [ threw |-> FALSE,
               message |-> [ message EXCEPT
                               !.mes = displayContent,
                               !.extra = [ backed EXCEPT !.display_text = Some(displayContent) ] ] ]

\* modifyMessageDisplay up to its calls of updateMessageBlock and saveChat:
\* the message after it; reading a property of a null extra throws
modifyMessageDisplay(message, displayContent, originalContent) ==
    IF message.extra.t = "null" THEN [ threw |-> TRUE, message |-> message ]
    ELSE LET extra == IF message.extra.t # "object" THEN EmptyExtra ELSE message.extra
             backed == IF NoBackup(extra)
                       THEN [ extra EXCEPT !.emoticon_original = Some(originalContent) ]
                       ELSE extra
         IN  [ threw |-> FALSE,
               message |-> [ message EXCEPT
                               !.extra = [ backed EXCEPT !.display_text = Some(displayContent) ] ] ]

\* modifyMessageContent up to its calls of updateMessageBlock and saveChat
modifyMessageContent(message, newContent, originalContent) ==
    LET extra == IF message.extra.t # "object" THEN EmptyExtra ELSE message.extra
        backed == IF NoBackup(extra)
                  THEN [ extra EXCEPT !.emoticon_original = Some(originalContent) ]
                  ELSE extra
    IN  [ threw |-> FALSE,
          message |-> [ message EXCEPT !.extra = backed, !.mes = newContent ] ]

\* processMessage from the result of replaceText on: the early return when
\* nothing was replaced, then the change the mode asks for
ApplyResult(settings, chat, messageId, result, saveFails) ==
    IF ~result.hasReplacements \/ result.successCount = 0
    THEN [ chat |-> chat, value |-> FALSE ]
    ELSE LET done == IF settings.modifyMode = "display"
                     THEN modifyMessageDisplay(chat[messageId], result.text, result.originalText)
                     ELSE modifyMessageContent(chat[messageId], result.text, result.originalText)
         IN  [ chat |-> [ chat EXCEPT ![messageId] = done.message ],
               value |-> ~done.threw /\ ~saveFails ]

\* processMessage(messageId) on the chat, with the engine and the
\* configuration of the replacer; saveFails: updateMessageBlock or saveChat
\* throws.  The chat after the call and the value the promise resolves to.
processMessage(this, config, settings, chat, messageId, saveFails) ==
    IF messageId \notin DOMAIN chat THEN [ chat |-> chat, value |-> FALSE ]
    ELSE IF ~shouldProcessMessage(settings, chat[messageId])
    THEN [ chat |-> chat, value |-> FALSE ]
    ELSE CHOOSE done \in
            { ApplyResult(settings, chat, messageId, result, saveFails) :
                result \in { replaceText(this, config, chat[messageId].mes,
                                 [ strategy |-> settings.replaceStrategy,
                                   threshold |-> 0,
                                   keepOriginalOnNotFound |-> settings.keepOriginalOnNotFound,
                                   markNotFound |-> settings.markNotFound ]) } } : TRUE

\* restoreMessage(messageId): the chat after the call, the value the
\* promise resolves to, and whether it rejects (saveChat throws)
restoreMessage(settings, chat, messageId, saveFails) ==
    IF messageId \notin DOMAIN chat
    THEN [ chat |-> chat, value |-> FALSE, rejected |-> FALSE ]
    ELSE LET message == chat[messageId]
         IN  IF message.extra.t # "object" \/ NoBackup(message.extra)
             THEN [ chat |-> chat, value |-> FALSE, rejected |-> FALSE ]
             ELSE LET originalContent == message.extra.emoticon_original[1]
                      shown == IF settings.modifyMode = "display"
                               THEN [ message EXCEPT !.extra.display_text = Null ]
                               ELSE [ message EXCEPT !.mes = originalContent ]
                  IN  [ chat |-> [ chat EXCEPT
                                     ![messageId] = [ shown EXCEPT !.extra.emoticon_original = Null ] ],
                        value |-> ~saveFails,
                        rejected |-> saveFails ]

\* ------------------------------------------------------------------------
\* IndexedDBStorage
\* ------------------------------------------------------------------------

\* The value stored under DATA_KEY is Undefined (nothing stored) or an array.
\* One use of IndexedDB ends in one of three ways: "ok"; "open", openDatabase
\* rejects; "request", the request or its transaction fails.
DatabaseOutcomes == { "ok", "open", "request" }

\* getEmoticons(): openDatabase is awaited inside the try block, so its
\* rejection yields null; the promise of the request is returned without
\* being awaited, so its rejection is the rejection of getEmoticons
getEmoticons(cache, db) ==
    IF db = "open" THEN [ rejected |-> FALSE, value |-> JsNull ]
    ELSE IF db = "request" THEN [ rejected |-> TRUE, value |-> Undefined ]
    ELSE [ rejected |-> FALSE, value |-> IF Falsy(cache) THEN JsNull ELSE cache ]

\* saveEmoticons(data): the cache after the call and the outcome
saveEmoticons(cache, data, db) ==
    IF data.t # "array" THEN [ cache |-> cache, rejected |-> FALSE, value |-> FALSE ]
    ELSE IF db = "open" THEN [ cache |-> cache, rejected |-> FALSE, value |-> FALSE ]
    ELSE IF db = "request" THEN [ cache |-> cache, rejected |-> TRUE, value |-> FALSE ]
    ELSE [ cache |-> data, rejected |-> FALSE, value |-> TRUE ]

\* clearEmoticons()
clearEmoticons(cache, db) ==
    IF db = "open" THEN [ cache |-> cache, rejected |-> FALSE, value |-> FALSE ]
    ELSE IF db = "request" THEN [ cache |-> cache, rejected |-> TRUE, value |-> FALSE ]
    ELSE [ cache |-> Undefined, rejected |-> FALSE, value |-> TRUE ]

\* What fetch(url) and response.json() come to: fetch rejects ("network"),
\* the status is not ok ("status"), the body is not JSON ("syntax"), or the
\* body parses to a value ("json")
Response(t, body) == [ t |-> t, body |-> body ]

\* loadFromRemote(url): the array of the body, or null
loadFromRemote(response) ==
    IF response.t # "json" THEN JsNull
    ELSE IF response.body.t # "array" THEN JsNull
    ELSE response.body

\* x && x.length > 0 for null or an array x
NonEmptyArray(x) == x.t = "array" /\ Len(x.v) > 0

\* initEmoticonStorage(options) in an environment env = [read, write,
\* response]: the cache after the call, the value the promise resolves to,
\* whether it rejects, and whether fetch was called
initEmoticonStorage(cache, options, env) ==
    LET existingData == getEmoticons(cache, env.read)
        empty == [ cache |-> cache, value |-> Arr(<<>>), rejected |-> FALSE, fetched |-> FALSE ]
    IN  IF ~options.forceReload /\ existingData.rejected THEN empty
        ELSE IF ~options.forceReload /\ NonEmptyArray(existingData.value)
        THEN [ empty EXCEPT !.value = existingData.value ]
        ELSE IF Falsy(options.defaultURL) THEN empty
        ELSE LET remoteData == loadFromRemote(env.response)
             IN  IF ~NonEmptyArray(remoteData) THEN [ empty EXCEPT !.fetched = TRUE ]
                 ELSE LET saved == saveEmoticons(cache, remoteData, env.write)
                      IN  [ cache |-> saved.cache,
                            value |-> IF saved.rejected THEN Arr(<<>>) ELSE remoteData,
                            rejected |-> FALSE,
                            fetched |-> TRUE ]

\* ------------------------------------------------------------------------
\* Inputs
\* ------------------------------------------------------------------------

\* the longest result list a caller of search asks for
MaxTopK == 3

\* the number of buildIndex calls made on the engine
MaxBuilds == 2

\* a corpus entry; weight 0 stands for an absent weight, iterable FALSE for
\* keywords that cannot be spread
Item(kaomoji, keywords, weight, category) ==
    [ kaomoji |-> kaomoji, keywords |-> keywords, weight |-> weight,
      category |-> category, iterable |-> TRUE ]

\* an entry without a keywords list
BrokenItem(kaomoji) ==
    [ kaomoji |-> kaomoji, keywords |-> <<>>, weight |-> 0,
      category |-> <<>>, iterable |-> FALSE ]

\* an array argument, and an argument that is not an array
Array(items) == [ isArray |-> TRUE, items |-> items ]
NotAnArray == [ isArray |-> FALSE, items |-> <<>> ]

\* testKaomojis: four entries of four keywords each
TestKaomojis ==
    Array(<< Item(<<"=", " ", "=">>,
                  << <<"wu", "yu">>, <<"hei", "lian">>, <<"wu", "nai">>,
                     <<"fan", "bai", "yan">> >>, FP, <<>>),
             Item(<<"(", "#", ")">>,
                  << <<"xian", "zhuo">>, <<"fen", "nu">>, <<"sheng", "qi">>,
                     <<"bao", "zao">> >>, FP, <<>>),
             Item(<<"(", "^", ")">>,
                  << <<"kai", "xin">>, <<"gao", "xing">>, <<"kuai", "le">>,
                     <<"xing", "fen4">> >>, FP, <<>>),
             Item(<<"_", ":", "_">>,
                  << <<"tang", "ping">>, <<"bai3", "lan4">>, <<"xian2", "yu2">>,
                     <<"lan">> >>, FP, <<>>) >>)

\* one entry whose only keyword is a single character
SingleKai == Array(<< Item(<<"n">>, << <<"kai">> >>, 0, <<>>) >>)

\* entries with equal keywords (equal scores), a repeated keyword, a
\* weight, a category, and a payload that is itself a marker
Mixed ==
    Array(<< Item(<<"a", "1">>, << <<"kai", "xin">>, <<"1">> >>, FP, <<>>),
             Item(<<"a", "2">>, << <<"kai", "xin">>, <<"1">> >>, 0, <<>>),
             Item(<<"x">>, << <<"kai", "xin">>, <<"kai", "xin">>, <<"xin">> >>,
                  2 * FP, <<"c">>),
             Item(MarkerPrefix \o <<"x", "]">>, << <<"a">>, <<"wo">> >>, FP \div 2, <<>>) >>)

\* an array whose second entry has no keywords list
BrokenArray == Array(<< Item(<<"n">>, << <<"kai">> >>, FP, <<>>), BrokenItem(<<"x">>) >>)

Corpora == { Array(<<>>), TestKaomojis, SingleKai, Mixed, NotAnArray, BrokenArray }

\* query texts
QueryTexts ==
    { <<>>, <<" ">>, <<",", "?">>,
      <<"kai", "xin">>, <<"kai">>, <<"wo", "hen", "xin">>,
      <<"wu", "yu", "hei", "lian">>, <<"xing">>, <<"a">>,
      <<"kai", "xin", ",", " ", "a">> }

Thresholds == { 0 - (FP \div 2), 0, FP + (FP \div 5) }

\* a marker with the given payload and tag spelling
Marker(payload) == MarkerPrefix \o payload \o <<"]">>
MarkerUpper(payload) == <<"[", "E", "m", "o", "t", "i", "c", "o", "n", ":">> \o payload \o <<"]">>

\* texts given to replaceText
ReplaceTexts ==
    { <<"wo", "hen", "kai", "xin">>,
      <<"jin", "tian">> \o Marker(<<"wu", "yu", ",", "hei", "lian">>),
      <<"x">> \o Marker(<<"1">>) \o <<"x">>,
      MarkerUpper(<<" ", "kai", "xin", " ", ",", "a">>) \o <<" ">> \o Marker(<<" ", "1", ",">>),
      Marker(<<"kai">>) \o Marker(<<"xin">>),
      <<"a">> \o Marker(<<" ", ",", " ">>) \o <<"a">>,
      MarkerPrefix \o <<"kai">>,
      MarkerPrefix \o <<"]">> \o Marker(<<"a">>),
      <<"[", "e", "m", "o", "t", "i", "c", "o", "n">> \o Marker(<<" ">>) \o <<":", "kai", "]">>,
      <<"[", "e", "m", "o", "t", "i", "c", "o">> \o Marker(<<"kai">>) \o <<":", "kai", "]">>,
      Marker(<<",">>) \o Marker(<<"kai">>) \o Marker(<<"1">>) }

\* the longest text given to the tokenizer alone
MaxTokenLen == 6

\* the characters of those texts: two ideographs, a letter and a
\* punctuation mark
TokenAlphabet == { "kai", "xin", "a", "," }

\* the texts over the alphabet up to the longest length
TokenTexts == UNION { [1..n -> TokenAlphabet] : n \in 0..MaxTokenLen }

Strategies == { "undefined", "first", "best", "all", "random" }

ReplaceThresholds == { 0, FP + (FP \div 5) }

ReplaceOptions ==
    [ strategy : Strategies, threshold : ReplaceThresholds,
      keepOriginalOnNotFound : BOOLEAN, markNotFound : BOOLEAN ]

\* the chat the host holds: a character's message with a marker and no
\* extra, the user's message with the same marker, a character's message
\* whose extra is null, and a system message
Message(mes, is_user, is_system, extra) ==
    [ mes |-> mes, is_user |-> is_user, is_system |-> is_system, extra |-> extra ]

InitialChat ==
    << Message(<<"a">> \o Marker(<<"kai">>), FALSE, FALSE, NoExtra),
       Message(Marker(<<"kai">>), TRUE, FALSE, EmptyExtra),
       Message(Marker(<<"1">>), FALSE, FALSE, NullExtra),
       Message(Marker(<<"kai">>), FALSE, TRUE, NoExtra) >>

\* the corpus the extension loads
ChatCorpora == { Mixed }

\* the messageIds handed to the extension, one past the chat included
MessageIds == 1..(Len(InitialChat) + 1)

\* the modes the settings panel offers
ModifyModes == { "display", "content" }

\* what the cache and the remote file hold
StoredArrays == { Arr(<<>>), Arr(<<"c">>), Arr(<<"r">>) }
RemoteURLs == { JsNull, Str(<<>>), Str(<<"u">>) }
Responses ==
    { Response("network", Undefined), Response("status", Undefined),
      Response("syntax", Undefined), Response("json", JsNull),
      Response("json", Arr(<<>>)), Response("json", Arr(<<"r">>)) }

\* ------------------------------------------------------------------------
\* The program: one engine, one replacer on it, and their caller
\* ------------------------------------------------------------------------

VARIABLES
    documents,          \* SearchEngine.documents
    avgDocLength,       \* SearchEngine.avgDocLength
    avgCharDocLength,   \* SearchEngine.avgCharDocLength
    idf,                \* SearchEngine.idf
    charIdf,            \* SearchEngine.charIdf
    config,             \* EmoticonReplacer.config
    pc,                 \* the caller: "idle" before a call, "returned" after it
    call,               \* the call just made: its name and arguments
    ret,                \* what the call returned
    builds,             \* the number of buildIndex calls so far
    lastBuilt,          \* the arguments of the buildIndex calls that returned, latest last
    managerKaomojis,    \* KaomojiDataManager.kaomojis: the addresses of the entries
    heap,               \* the entry objects and keywords arrays alive, by address
    edits,              \* the number of loads and changes made to the manager so far
    chat,               \* the host's chat: its messages, by messageId
    settings,           \* EmoticonReplacerExtension.settings
    cache               \* the value stored in IndexedDB under DATA_KEY

vars == << documents, avgDocLength, avgCharDocLength, idf, charIdf, config,
           pc, call, ret, builds, lastBuilt, managerKaomojis, heap, edits,
           chat, settings, cache >>

engineVars == << documents, avgDocLength, avgCharDocLength, idf, charIdf >>

managerVars == << managerKaomojis, heap, edits >>

hostVars == << chat, settings, cache >>

\* what the engine, the replacer and their caller leave alone
restVars == << managerVars, hostVars >>

\* the engine object
This ==
    [ documents |-> documents, avgDocLength |-> avgDocLength,
      avgCharDocLength |-> avgCharDocLength, idf |-> idf, charIdf |-> charIdf ]

Init ==
    /\ documents = NewEngine.documents
    /\ avgDocLength = NewEngine.avgDocLength
    /\ avgCharDocLength = NewEngine.avgCharDocLength
    /\ idf = NewEngine.idf
    /\ charIdf = NewEngine.charIdf
    /\ config = DefaultConfig
    /\ pc = "idle"
    /\ call = [ op |-> "none" ]
    /\ ret = <<>>
    /\ builds = 0
    /\ lastBuilt = <<>>
    /\ managerKaomojis = NewManager.kaomojis
    /\ heap = NewManager.heap
    /\ edits = 0
    /\ chat = InitialChat
    /\ settings = DefaultSettings
    /\ cache = Undefined

\* replacer.loadEmoticons(kaomojis) / engine.buildIndex(kaomojis)
BuildIndex(kaomojis) ==
    /\ pc = "idle"
    /\ builds < MaxBuilds
    /\ LET done == buildIndex(This, kaomojis)
       IN  /\ documents' = done.engine.documents
           /\ avgDocLength' = done.engine.avgDocLength
           /\ avgCharDocLength' = done.engine.avgCharDocLength
           /\ idf' = done.engine.idf
           /\ charIdf' = done.engine.charIdf
           /\ ret' = [ threw |-> done.threw ]
           /\ lastBuilt' = IF done.threw THEN lastBuilt ELSE Append(lastBuilt, kaomojis)
    /\ builds' = builds + 1
    /\ call' = [ op |-> "buildIndex", kaomojis |-> kaomojis ]
    /\ pc' = "returned"
    /\ UNCHANGED << config, restVars >>

\* engine.search(text, topK, threshold) / replacer.query(text, topK)
Search(text, topK, threshold) ==
    /\ pc = "idle"
    /\ ret' = search(This, text, topK, threshold)
    /\ call' = [ op |-> "search", text |-> text, topK |-> topK, threshold |-> threshold ]
    /\ pc' = "returned"
    /\ UNCHANGED << engineVars, config, builds, lastBuilt, restVars >>

\* engine.exactMatch(text) / replacer.exactQuery(text)
ExactMatch(text) ==
    /\ pc = "idle"
    /\ ret' = exactMatch(This, text)
    /\ call' = [ op |-> "exactMatch", text |-> text ]
    /\ pc' = "returned"
    /\ UNCHANGED << engineVars, config, builds, lastBuilt, restVars >>

\* replacer.replaceText(text, options)
ReplaceText(text, options) ==
    /\ pc = "idle"
    /\ ret' = replaceText(This, config, text, options)
    /\ call' = [ op |-> "replaceText", text |-> text, options |-> options ]
    /\ pc' = "returned"
    /\ UNCHANGED << engineVars, config, builds, lastBuilt, restVars >>

\* replacer.preview(text)
Preview(text) ==
    /\ pc = "idle"
    /\ ret' = preview(This, config, text)
    /\ call' = [ op |-> "preview", text |-> text ]
    /\ pc' = "returned"
    /\ UNCHANGED << engineVars, config, builds, lastBuilt, restVars >>

\* the caller is done with the returned value and is ready for its next call
Continue ==
    /\ pc = "returned"
    /\ pc' = "idle"
    /\ call' = [ op |-> "none" ]
    /\ ret' = <<>>
    /\ heap' = Collect(heap, Range(managerKaomojis), IndexArrays(heap))
    /\ UNCHANGED << hostVars, engineVars, config, builds, lastBuilt, managerKaomojis, edits >>

Next ==
    \/ \E kaomojis \in Corpora : BuildIndex(kaomojis)
    \/ \E text \in QueryTexts, topK \in 0..MaxTopK, threshold \in Thresholds :
          Search(text, topK, threshold)
    \/ \E text \in QueryTexts : ExactMatch(text)
    \/ \E text \in ReplaceTexts, options \in ReplaceOptions : ReplaceText(text, options)
    \/ \E text \in ReplaceTexts : Preview(text)
    \/ Continue

Spec == Init /\ [][Next]_vars

\* engine._tokenize(text), called on its own
TokenizeText(text) ==
    /\ pc = "idle"
    /\ ret' = Tokenize(text)
    /\ call' = [ op |-> "tokenize", text |-> text ]
    /\ pc' = "returned"
    /\ UNCHANGED << engineVars, config, builds, lastBuilt, restVars >>

NextTokenize ==
    \/ \E text \in TokenTexts : TokenizeText(text)
    \/ Continue

\* the tokenizer under every text up to the longest length
SpecTokenize == Init /\ [][NextTokenize]_vars


\* ------------------------------------------------------------------------
\* The data manager and its caller
\* ------------------------------------------------------------------------

\* the number of loads and changes made to the manager
MaxEdits == 2

\* items given to the manager: two valid ones, one whose keywords are all
\* blank, and items missing or mistyping a field
ItemN == Obj(Str(<<"n">>), Arr(<< Str(<<"kai">>), Str(<<" ", "xin", " ">>) >>),
             Undefined, Undefined)
ItemX == Obj(Str(<<"x">>), Arr(<< Str(<<"kai">>) >>), Num(2 * FP), Str(<<"c">>))
BlankKeywords == Obj(Str(<<"a">>), Arr(<< Str(<<" ">>) >>), Undefined, Undefined)
NoKeywords == Obj(Str(<<"n">>), Undefined, Undefined, Undefined)
NoText == Obj(Undefined, Arr(<< Str(<<"kai">>) >>), Undefined, Undefined)
EmptyText == Obj(Str(<<>>), Arr(<< Str(<<"kai">>) >>), Undefined, Undefined)
NumberText == Obj(Num(FP), Arr(<< Str(<<"kai">>) >>), Undefined, Undefined)
StringKeywords == Obj(Str(<<"x">>), Str(<<"kai">>), Undefined, Undefined)
EmptyKeywords == Obj(Str(<<"x">>), Arr(<<>>), Undefined, Undefined)

\* the arguments of loadFromArray
LoadArguments ==
    { Arr(<<>>),
      Arr(<< ItemN, ItemX >>),
      Arr(<< NoKeywords, NoText, ItemX >>),
      Arr(<< EmptyText, ItemN, NumberText, StringKeywords, EmptyKeywords, ItemX >>),
      Arr(<< ItemX, BlankKeywords >>),
      Arr(<< ItemX, JsNull, ItemN >>),
      Str(<<"x">>) }

\* the arguments of the calls that name an entry, a keyword, a category or
\* a weight
Kaomojis == { <<"n">>, <<"x">>, <<"a">> }
Keywords == { <<"kai">>, <<"xin">>, <<" ">> }
Categories == { Undefined, Str(<<"c">>) }
Weights == { Num(0), Num(FP \div 2), Infinity, Str(<<"1">>) }

\* the manager object
Manager == [ kaomojis |-> managerKaomojis, heap |-> heap ]

\* the entries and arrays a returned value refers to
HeldEntries(value) == IF value.t = "entries" THEN Range(value.v) ELSE {}
HeldArrays(value) == IF value.t = "keywords" THEN { value.v } ELSE {}

\* a load or a change of the manager returns: the manager after it and the
\* value returned
Changed(op, arguments, after, value) ==
    /\ pc = "idle"
    /\ edits < MaxEdits
    /\ edits' = edits + 1
    /\ managerKaomojis' = after.kaomojis
    /\ heap' = Collect(after.heap, Range(after.kaomojis), {})
    /\ ret' = value
    /\ call' = [ op |-> op, arguments |-> arguments ]
    /\ pc' = "returned"
    /\ UNCHANGED << hostVars, engineVars, config, builds, lastBuilt >>

\* a read of the manager returns: the heap holding the copies, and the value
Read(op, arguments, result) ==
    /\ pc = "idle"
    /\ heap' = result.heap
    /\ ret' = result.value
    /\ call' = [ op |-> op, arguments |-> arguments ]
    /\ pc' = "returned"
    /\ UNCHANGED << hostVars, engineVars, config, builds, lastBuilt, managerKaomojis, edits >>

LoadFromArray(data) ==
    LET done == loadFromArray(Manager, data)
    IN  Changed("loadFromArray", <<data>>, done.manager, [ t |-> "load", threw |-> done.threw ])

\* manager.loadFromJSON(json) with the text another manager exported after
\* loading data, or with a text that is not JSON
LoadFromJSON(jsonString) ==
    LET done == loadFromJSON(Manager, jsonString)
    IN  Changed("loadFromJSON", <<jsonString>>, done.manager,
                [ t |-> "load", threw |-> done.threw ])

AddKeyword(kaomoji, keyword) ==
    LET done == addKeyword(Manager, kaomoji, keyword)
    IN  Changed("addKeyword", <<kaomoji, keyword>>, done.manager,
                [ t |-> "boolean", v |-> done.value ])

RemoveKeyword(kaomoji, keyword) ==
    LET done == removeKeyword(Manager, kaomoji, keyword)
    IN  Changed("removeKeyword", <<kaomoji, keyword>>, done.manager,
                [ t |-> "boolean", v |-> done.value ])

SetCategory(kaomoji, category) ==
    LET done == setCategory(Manager, kaomoji, category)
    IN  Changed("setCategory", <<kaomoji, category>>, done.manager,
                [ t |-> "boolean", v |-> done.value ])

SetWeight(kaomoji, weight) ==
    LET done == setWeight(Manager, kaomoji, weight)
    IN  Changed("setWeight", <<kaomoji, weight>>, done.manager,
                [ t |-> "boolean", v |-> done.value ])

Clear == Changed("clear", <<>>, clear(Manager), Undefined)

GetAllKaomojis == Read("getAllKaomojis", <<>>, getAllKaomojis(Manager))
GetKaomojiByText(kaomoji) == Read("getKaomojiByText", <<kaomoji>>, getKaomojiByText(Manager, kaomoji))
GetKeywordsByKaomoji(kaomoji) ==
    Read("getKeywordsByKaomoji", <<kaomoji>>, getKeywordsByKaomoji(Manager, kaomoji))
FilterByCategory(categories) ==
    Read("filterByCategory", <<categories>>, filterByCategory(Manager, categories))
FindByKeyword(keywords) == Read("findByKeyword", <<keywords>>, findByKeyword(Manager, keywords))
ExportToArray == Read("exportToArray", <<>>, exportToArray(Manager))

\* the caller pushes a keyword on a keywords array it was returned: that
\* of a returned entry, or the array returned by getKeywordsByKaomoji
PushOnReturned(keyword) ==
    /\ pc = "returned"
    /\ ret.t \in { "entries", "keywords" }
    /\ \E a \in { heap[e].keywords : e \in HeldEntries(ret) } \cup HeldArrays(ret) :
          /\ keyword \notin Range(heap[a])
          /\ heap' = Store(heap, a, Append(heap[a], keyword))
    /\ UNCHANGED << hostVars, engineVars, config, builds, lastBuilt, managerKaomojis, edits,
                    pc, call, ret >>

\* the caller sets the category of an entry it was returned
SetReturnedCategory(category) ==
    /\ pc = "returned"
    /\ ret.t = "entries"
    /\ \E e \in HeldEntries(ret) :
          /\ heap[e].category # category
          /\ heap' = Store(heap, e, [ heap[e] EXCEPT !.category = category ])
    /\ UNCHANGED << hostVars, engineVars, config, builds, lastBuilt, managerKaomojis, edits,
                    pc, call, ret >>

NextManager ==
    \/ \E data \in LoadArguments : LoadFromArray(data)
    \/ \E data \in LoadArguments :
          LoadFromJSON(exportToJSON(loadFromArray(NewManager, data).manager))
    \/ LoadFromJSON(InvalidJSON)
    \/ \E kaomoji \in Kaomojis, keyword \in Keywords : AddKeyword(kaomoji, keyword)
    \/ \E kaomoji \in Kaomojis, keyword \in Keywords : RemoveKeyword(kaomoji, keyword)
    \/ \E kaomoji \in Kaomojis, category \in Categories : SetCategory(kaomoji, category)
    \/ \E kaomoji \in Kaomojis, weight \in Weights : SetWeight(kaomoji, weight)
    \/ Clear
    \/ GetAllKaomojis
    \/ \E kaomoji \in Kaomojis : GetKaomojiByText(kaomoji)
    \/ \E kaomoji \in Kaomojis : GetKeywordsByKaomoji(kaomoji)
    \/ \E category \in { <<>>, <<"c">> } : FilterByCategory(<<category>>)
    \/ FilterByCategory(<< <<>>, <<"c">> >>)
    \/ \E keyword \in Keywords : FindByKeyword(<<keyword>>)
    \/ FindByKeyword(<< <<"kai">>, <<"xin">> >>)
    \/ ExportToArray
    \/ \E keyword \in { <<"wo">> } : PushOnReturned(keyword)
    \/ \E category \in { <<"t">> } : SetReturnedCategory(category)
    \/ Continue

\* the data manager under its caller
SpecManager == Init /\ [][NextManager]_vars

\* ------------------------------------------------------------------------
\* The chat extension on the engine and the replacer, and its host
\* ------------------------------------------------------------------------

\* loadSettings(): the saved settings are merged into this.settings
LoadSettings(modifyMode, processUserMessages) ==
    /\ pc = "idle"
    /\ settings' = [ settings EXCEPT !.modifyMode = modifyMode,
                                     !.processUserMessages = processUserMessages ]
    /\ settings' # settings
    /\ UNCHANGED << engineVars, config, pc, call, ret, builds, lastBuilt,
                    managerVars, chat, cache >>

\* processMessage(messageId); saveFails: updateMessageBlock or saveChat throws
ProcessMessage(messageId, saveFails) ==
    /\ pc = "idle"
    /\ \E done \in { processMessage(This, config, settings, chat, messageId, saveFails) } :
           /\ chat' = done.chat
           /\ ret' = [ value |-> done.value, rejected |-> FALSE ]
    /\ call' = [ op |-> "processMessage", messageId |-> messageId ]
    /\ pc' = "returned"
    /\ UNCHANGED << engineVars, config, builds, lastBuilt, managerVars, settings, cache >>

\* restoreMessage(messageId)
RestoreMessage(messageId, saveFails) ==
    /\ pc = "idle"
    /\ \E done \in { restoreMessage(settings, chat, messageId, saveFails) } :
           /\ chat' = done.chat
           /\ ret' = [ value |-> done.value, rejected |-> done.rejected ]
    /\ call' = [ op |-> "restoreMessage", messageId |-> messageId ]
    /\ pc' = "returned"
    /\ UNCHANGED << engineVars, config, builds, lastBuilt, managerVars, settings, cache >>

NextChat ==
    \/ \E kaomojis \in ChatCorpora : BuildIndex(kaomojis)
    \/ \E modifyMode \in ModifyModes, processUserMessages \in BOOLEAN :
          LoadSettings(modifyMode, processUserMessages)
    \/ \E messageId \in MessageIds, saveFails \in BOOLEAN : ProcessMessage(messageId, saveFails)
    \/ \E messageId \in MessageIds, saveFails \in BOOLEAN : RestoreMessage(messageId, saveFails)
    \/ Continue

SpecChat == Init /\ [][NextChat]_vars

\* ------------------------------------------------------------------------
\* The cache in IndexedDB and its caller
\* ------------------------------------------------------------------------

\* saveEmoticons(data)
SaveEmoticons(data, db) ==
    /\ pc = "idle"
    /\ LET done == saveEmoticons(cache, data, db)
       IN  /\ cache' = done.cache
           /\ ret' = [ value |-> done.value, rejected |-> done.rejected ]
    /\ call' = [ op |-> "saveEmoticons", data |-> data ]
    /\ pc' = "returned"
    /\ UNCHANGED << engineVars, config, builds, lastBuilt, managerVars, chat, settings >>

\* clearEmoticons()
ClearEmoticons(db) ==
    /\ pc = "idle"
    /\ LET done == clearEmoticons(cache, db)
       IN  /\ cache' = done.cache
           /\ ret' = [ value |-> done.value, rejected |-> done.rejected ]
    /\ call' = [ op |-> "clearEmoticons" ]
    /\ pc' = "returned"
    /\ UNCHANGED << engineVars, config, builds, lastBuilt, managerVars, chat, settings >>

\* initEmoticonStorage(options) in the environment env
InitEmoticonStorage(options, env) ==
    /\ pc = "idle"
    /\ LET done == initEmoticonStorage(cache, options, env)
       IN  /\ cache' = done.cache
           /\ ret' = [ value |-> done.value, rejected |-> done.rejected,
                       fetched |-> done.fetched, before |-> cache ]
    /\ call' = [ op |-> "initEmoticonStorage", options |-> options, env |-> env ]
    /\ pc' = "returned"
    /\ UNCHANGED << engineVars, config, builds, lastBuilt, managerVars, chat, settings >>

NextStorage ==
    \/ \E data \in StoredArrays \cup { JsNull }, db \in DatabaseOutcomes : SaveEmoticons(data, db)
    \/ \E db \in DatabaseOutcomes : ClearEmoticons(db)
    \/ \E defaultURL \in RemoteURLs, forceReload \in BOOLEAN,
          read \in DatabaseOutcomes, write \in DatabaseOutcomes, response \in Responses :
          InitEmoticonStorage([ defaultURL |-> defaultURL, forceReload |-> forceReload ],
                              [ read |-> read, write |-> write, response |-> response ])
    \/ Continue

SpecStorage == Init /\ [][NextStorage]_vars

\* ------------------------------------------------------------------------
\* The engine on corpora whose entries share characters
\* ------------------------------------------------------------------------

\* an entry holding a character inside a two-character keyword, an entry
\* holding the same character as a keyword of its own, and an entry with
\* neither
EntryJoy == Item(<<"j">>, << <<"kai", "xin">> >>, FP, <<>>)
EntryOpen == Item(<<"o">>, << <<"kai">>, <<"le">> >>, FP, <<>>)
EntryOther == Item(<<"w">>, << <<"wo">> >>, 2 * FP, <<>>)

\* the entries in either order, and with the third entry first
ScoreCorpora ==
    { Array(<< EntryJoy, EntryOpen >>), Array(<< EntryOpen, EntryJoy >>),
      Array(<< EntryOther, EntryJoy, EntryOpen >>) }

ScoreTexts == { <<"kai">>, <<"kai", "xin">>, <<"wo", "hen", "xin">>, <<"le">> }

NextScore ==
    \/ \E kaomojis \in ScoreCorpora : BuildIndex(kaomojis)
    \/ \E text \in ScoreTexts, topK \in 0..MaxTopK : Search(text, topK, 0)
    \/ Continue

SpecScore == Init /\ [][NextScore]_vars

\* ------------------------------------------------------------------------
\* The index and the data it was built from
\* ------------------------------------------------------------------------

\* the array the caller holds, as buildIndex reads it
HeldArray == Array([ i \in DOMAIN managerKaomojis |-> ItemAt(heap, managerKaomojis[i]) ])

\* replacer.loadEmoticons(data) / engine.buildIndex(data) on the array the
\* caller holds: the keywords arrays of the documents are created on the heap
BuildIndexOnData ==
    /\ pc = "idle"
    /\ builds < MaxBuilds
    /\ \E made \in { MapKeywords(Collect(heap, Range(managerKaomojis), {}), managerKaomojis) } :
          heap' = Store(made.heap, DocumentsAddress, made.addresses)
    /\ \E done \in { buildIndex(This, HeldArray) } :
          /\ documents' = done.engine.documents
          /\ avgDocLength' = done.engine.avgDocLength
          /\ avgCharDocLength' = done.engine.avgCharDocLength
          /\ idf' = done.engine.idf
          /\ charIdf' = done.engine.charIdf
          /\ ret' = [ threw |-> done.threw ]
    /\ lastBuilt' = Append(lastBuilt, HeldArray)
    /\ builds' = builds + 1
    /\ call' = [ op |-> "buildIndex", kaomojis |-> HeldArray ]
    /\ pc' = "returned"
    /\ UNCHANGED << config, managerKaomojis, edits, hostVars >>

\* the caller changes its data: the array is then kaomojis and the heap h;
\* the engine reads doc.keywords through the reference the document holds
CallerChanges(kaomojis, h) ==
    /\ pc = "idle"
    /\ edits < MaxEdits
    /\ edits' = edits + 1
    /\ (kaomojis # managerKaomojis \/ h # heap)
    /\ managerKaomojis' = kaomojis
    /\ heap' = Collect(h, Range(kaomojis), IndexArrays(h))
    /\ documents' = Referred(h, documents)
    /\ UNCHANGED << avgDocLength, avgCharDocLength, idf, charIdf, config, pc, call, ret,
                    builds, lastBuilt, hostVars >>

\* manager.loadFromArray(data), the manager's list being the array given to buildIndex
LoadData(data) ==
    \E done \in { loadFromArray(Manager, data) } :
        CallerChanges(done.manager.kaomojis, done.manager.heap)

\* manager.addKeyword(kaomoji, keyword)
AddKeywordToData(kaomoji, keyword) ==
    \E done \in { addKeyword(Manager, kaomoji, keyword) } :
        CallerChanges(done.manager.kaomojis, done.manager.heap)

\* manager.removeKeyword(kaomoji, keyword)
RemoveKeywordFromData(kaomoji, keyword) ==
    \E done \in { removeKeyword(Manager, kaomoji, keyword) } :
        CallerChanges(done.manager.kaomojis, done.manager.heap)

\* data[i].keywords.push(keyword)
PushOnData(i, keyword) ==
    /\ i \in DOMAIN managerKaomojis
    /\ \E a \in { heap[managerKaomojis[i]].keywords } :
          CallerChanges(managerKaomojis, Store(heap, a, Append(heap[a], keyword)))

\* data[i].kaomoji = kaomoji
SetDataText(i, kaomoji) ==
    /\ i \in DOMAIN managerKaomojis
    /\ \E e \in { managerKaomojis[i] } :
          CallerChanges(managerKaomojis, Store(heap, e, [ heap[e] EXCEPT !.kaomoji = kaomoji ]))

\* data.splice(i, 1)
SpliceData(i) ==
    /\ i \in DOMAIN managerKaomojis
    /\ CallerChanges(RemoveAt(managerKaomojis, i), heap)

\* the data loaded, the texts asked for, and the options of replaceText
SnapshotData == { Arr(<< ItemN, ItemX >>), Arr(<< ItemX >>) }
SnapshotTexts == { <<"kai">>, <<"wo", "hen", "xin">>, Marker(<<"wo">>), Marker(<<"xin">>) }
SnapshotOptions ==
    [ strategy |-> "best", threshold |-> 0, keepOriginalOnNotFound |-> TRUE,
      markNotFound |-> FALSE ]

NextSnapshot ==
    \/ \E data \in SnapshotData : LoadData(data)
    \/ BuildIndexOnData
    \/ \E kaomoji \in { <<"n">>, <<"x">> }, keyword \in { <<"wo">> } :
          AddKeywordToData(kaomoji, keyword)
    \/ \E kaomoji \in { <<"n">> }, keyword \in { <<"xin">> } :
          RemoveKeywordFromData(kaomoji, keyword)
    \/ \E i \in 1..2, keyword \in { <<"hen">> } : PushOnData(i, keyword)
    \/ \E i \in 1..2 : SetDataText(i, <<"a">>)
    \/ \E i \in 1..2 : SpliceData(i)
    \/ \E text \in SnapshotTexts : Search(text, MaxTopK, 0)
    \/ \E text \in SnapshotTexts : ExactMatch(text)
    \/ \E text \in SnapshotTexts : ReplaceText(text, SnapshotOptions)
    \/ Continue

\* the engine under a caller that keeps and changes the data it indexed
SpecSnapshot == Init /\ [][NextSnapshot]_vars

\* ------------------------------------------------------------------------
\* The exec loop of preview under a configured pattern
\* ------------------------------------------------------------------------

\* the entries preview pushes before the model stops following the loop
MaxMarkers == 3

\* setConfig(config): Object.assign(this.config, config), whatever the
\* pattern given
SetConfig(markerPattern) ==
    /\ pc = "idle"
    /\ config' = [ config EXCEPT !.markerPattern = markerPattern ]
    /\ config' # config
    /\ UNCHANGED << engineVars, pc, call, ret, builds, lastBuilt, restVars >>

\* the leftmost match of the pattern at or after 0-based position i: its
\* index and the position after it, or Null
RECURSIVE ExecAt(_, _, _)
ExecAt(pattern, text, i) ==
    IF i >= Len(text) THEN Null
    ELSE IF MatchAt(pattern, text, i) # NoMatch
         THEN Some([ index |-> i, end |-> MatchAt(pattern, text, i) ])
         ELSE ExecAt(pattern, text, i + 1)

\* regex.exec(text) on a regex whose lastIndex is lastIndex: the search
\* starts at lastIndex under the g flag and at 0 without it; a match sets
\* lastIndex to its end under the g flag only, a failure sets it to 0
RegExpExec(pattern, text, lastIndex) ==
    LET match == ExecAt(pattern, text, IF pattern.global THEN lastIndex ELSE 0)
    IN  [ match |-> match,
          lastIndex |-> IF match = Null THEN 0
                        ELSE IF pattern.global THEN match[1].end
                        ELSE lastIndex ]

\* the entry pushed for a match
PreviewEntry(this, conf, text, match) ==
    LET keywordsStr == Slice(text, match.index + Len(conf.markerPattern.prefix), match.end - 1)
        keywords == ParseKeywords(keywordsStr, conf.keywordSeparator)
        matches == search(this, Join(keywords, <<" ">>), MarkerTopK, 0)
    IN  [ marker |-> Slice(text, match.index, match.end),
          keywords |-> keywords,
          offset |-> match.index,
          matches |-> matches,
          bestMatch |-> IF Len(matches) > 0 THEN Some(matches[1]) ELSE Null ]

\* preview(text) is entered: markers = [], regex = new RegExp(markerPattern)
PreviewEnter(text) ==
    /\ pc = "idle"
    /\ pc' = "exec"
    /\ call' = [ op |-> "preview", text |-> text, lastIndex |-> 0 ]
    /\ ret' = <<>>
    /\ UNCHANGED << engineVars, config, builds, lastBuilt, restVars >>

\* one evaluation of the loop condition (match = regex.exec(text)) !== null,
\* and the loop body when it holds; ret holds markers
PreviewExec ==
    /\ pc = "exec"
    /\ Len(ret) < MaxMarkers
    /\ \E done \in { RegExpExec(config.markerPattern, call.text, call.lastIndex) } :
          /\ call' = [ call EXCEPT !.lastIndex = done.lastIndex ]
          /\ IF done.match = Null
             THEN /\ pc' = "returned"
                  /\ ret' = ret
             ELSE /\ pc' = "exec"
                  /\ ret' = Append(ret, PreviewEntry(This, config, call.text, done.match[1]))
    /\ UNCHANGED << engineVars, config, builds, lastBuilt, restVars >>

\* the patterns given to setConfig: the default one, the default one
\* without the i flag, and the default one without the g flag
MarkerPatterns ==
    { [ prefix |-> MarkerPrefix, ignoreCase |-> TRUE, global |-> TRUE ],
      [ prefix |-> MarkerPrefix, ignoreCase |-> FALSE, global |-> TRUE ],
      [ prefix |-> MarkerPrefix, ignoreCase |-> TRUE, global |-> FALSE ] }

NextPreview ==
    \/ \E kaomojis \in { TestKaomojis, Mixed } : BuildIndex(kaomojis)
    \/ \E markerPattern \in MarkerPatterns : SetConfig(markerPattern)
    \/ \E text \in ReplaceTexts : PreviewEnter(text)
    \/ PreviewExec
    \/ Continue

\* the replacer under a caller that configures it and previews texts
SpecPreview == Init /\ [][NextPreview]_vars

\* ------------------------------------------------------------------------
\* Properties
\* ------------------------------------------------------------------------

\* the caller holds the value returned by a call of op
Returned(op) == pc = "returned" /\ call.op = op

\* the scores of all documents for a query text, before filtering
AllResults(text) ==
    [i \in DOMAIN documents |-> ScoreDoc(This, Tokenize(text), documents[i])]

\* C1: search(query, topK, threshold) returns at most topK results, every
\* returned score is strictly greater than threshold, and the results are
\* in non-increasing order of score.
C1_SearchContract ==
    Returned("search") =>
        /\ Len(ret) <= call.topK
        /\ \A i \in DOMAIN ret : ret[i].score > call.threshold
        /\ \A i, j \in DOMAIN ret : i < j => ret[i].score >= ret[j].score

\* C1 happens: a search cut to topK >= 2 results of different scores, with
\* more documents above the threshold than were returned
C1_Witness ==
    /\ Returned("search")
    /\ Len(ret) = call.topK
    /\ call.topK >= 2
    /\ ret[1].score > ret[2].score
    /\ Len(AboveThreshold(AllResults(call.text), call.threshold)) > call.topK

\* the text has no ideograph, ASCII letter or ASCII digit: it tokenizes to
\* no term
NoWordChar(text) == \A i \in DOMAIN text : text[i] \notin WordChar

\* C4: search returns the empty sequence whenever the index holds zero
\* documents (never built, or built from an empty list) or the query has
\* no term; buildIndex on an empty list returns normally.
C4_EmptyIsEmpty ==
    /\ (Returned("search") /\ (Len(documents) = 0 \/ NoWordChar(call.text))) => ret = <<>>
    /\ (Returned("buildIndex") /\ call.kaomojis = Array(<<>>)) =>
            (~ret.threw /\ documents = <<>>)

\* C4 happens: a query without terms, under a threshold below every score,
\* on an index that holds documents
C4_Witness ==
    /\ Returned("search")
    /\ Len(documents) > 0
    /\ call.text # <<>>
    /\ NoWordChar(call.text)
    /\ call.threshold < 0
    /\ call.topK > 0

\* keyword occurs in text as a run of consecutive characters
IsSubstring(keyword, text) ==
    \/ keyword = <<>>
    \/ \E i, j \in DOMAIN text : i <= j /\ SubSeq(text, i, j) = keyword

\* the exactMatch result expected of document i for a text
ExpectedExact(i, text) ==
    LET hits == SelectSeq(documents[i].keywords, LAMBDA kw : IsSubstring(kw, text))
    IN  [ kaomoji |-> documents[i].kaomoji,
          matchedKeywords |-> hits,
          score |-> Len(hits) * documents[i].weight,
          category |-> documents[i].category ]

\* the documents having a keyword that occurs in text
Qualifying(text) ==
    { i \in DOMAIN documents :
        \E k \in DOMAIN documents[i].keywords : IsSubstring(documents[i].keywords[k], text) }

\* C10: exactMatch(text) returns exactly the entries with a keyword that is
\* a substring of text, each with those keywords and the score
\* |matchedKeywords| x weight, sorted by non-increasing score, without
\* threshold or cap.
C10_ExactMatch ==
    Returned("exactMatch") =>
        /\ Len(ret) = Cardinality(Qualifying(call.text))
        /\ \E p \in [DOMAIN ret -> Qualifying(call.text)] :
              /\ \A m, n \in DOMAIN ret : m # n => p[m] # p[n]
              /\ \A m \in DOMAIN ret : ret[m] = ExpectedExact(p[m], call.text)
        /\ \A m, n \in DOMAIN ret : m < n => ret[m].score >= ret[n].score

\* C10 happens: several entries match with different scores, one of them
\* on more than one keyword, and some entry does not match
C10_Witness ==
    /\ Returned("exactMatch")
    /\ Len(ret) >= 2
    /\ ret[1].score > ret[Len(ret)].score
    /\ \E m \in DOMAIN ret : Len(ret[m].matchedKeywords) >= 2
    /\ Len(ret) < Len(documents)


\* the engine a new SearchEngine is after buildIndex(kaomojis) alone
FreshIndex(kaomojis) == buildIndex(NewEngine, kaomojis).engine

\* the scores an engine gives every document for a query text
ScoresOf(this, text) ==
    [i \in DOMAIN this.documents |-> ScoreDoc(this, Tokenize(text), this.documents[i]).score]

\* C5: buildIndex fully replaces the prior index: after any earlier builds,
\* the documents, average lengths, idf and charIdf tables and the score of
\* every query for every entry are those of a new engine on which only the
\* latest corpus was built.
C5_BuildReplacesIndex ==
    lastBuilt # <<>> =>
        LET fresh == FreshIndex(lastBuilt[Len(lastBuilt)])
        IN  /\ documents = fresh.documents
            /\ avgDocLength = fresh.avgDocLength
            /\ avgCharDocLength = fresh.avgCharDocLength
            /\ idf = fresh.idf
            /\ charIdf = fresh.charIdf
            /\ \A text \in QueryTexts : ScoresOf(This, text) = ScoresOf(fresh, text)

\* the argument is malformed: not an array, or an array holding an entry
\* without an iterable keywords list
Malformed(kaomojis) ==
    \/ ~kaomojis.isArray
    \/ \E i \in DOMAIN kaomojis.items : ~kaomojis.items[i].iterable

\* C6: a buildIndex call on malformed input throws and leaves the index as
\* it was: documents, average lengths, idf and charIdf are unchanged and
\* every search returns what it returned before the call.
C6_FailedBuildKeepsIndex ==
    [][ (pc' = "returned" /\ call'.op = "buildIndex" /\ pc = "idle") =>
          /\ Malformed(call'.kaomojis) => ret'.threw
          /\ ret'.threw =>
                /\ documents' = documents
                /\ avgDocLength' = avgDocLength
                /\ avgCharDocLength' = avgCharDocLength
                /\ idf' = idf
                /\ charIdf' = charIdf
                /\ \A text \in QueryTexts, threshold \in Thresholds :
                      search(This', text, MaxTopK, threshold)
                        = search(This, text, MaxTopK, threshold) ]_vars

\* C6 happens: an array whose first entry is well formed and whose second
\* is not was given to an engine holding a built index, and the call threw
C6_Witness ==
    /\ Returned("buildIndex")
    /\ ret.threw
    /\ call.kaomojis.isArray
    /\ Len(call.kaomojis.items) >= 2
    /\ Len(documents) >= 2
    /\ lastBuilt # <<>>

\* the payload of the test entry holding the keyword <<"kai", "xin">>
JoyPayload == TestKaomojis.items[3].kaomoji

\* C7: with the default parameters and the test corpus, the entry with the
\* keyword <<"kai", "xin">> scores higher for that query than for the
\* query <<"kai">>; the whole-term score is above 2.0 and the
\* single-character score below 1.0.
C7_WholeTermDominance ==
    lastBuilt = <<TestKaomojis>> =>
        LET wholeWordResults == search(This, <<"kai", "xin">>, MarkerTopK, 0)
            charOnlyResults == search(This, <<"kai">>, MarkerTopK, 0)
        IN  \E i \in DOMAIN wholeWordResults, j \in DOMAIN charOnlyResults :
              /\ wholeWordResults[i].kaomoji = JoyPayload
              /\ charOnlyResults[j].kaomoji = JoyPayload
              /\ wholeWordResults[i].score > charOnlyResults[j].score
              /\ wholeWordResults[i].score > 2 * FP
              /\ charOnlyResults[j].score < FP


\* ---- markers of a text, stated on the text itself ----

\* s is a marker: "[" tag ":" payload "]" with the tag in any case and a
\* payload of at least one character, none of them "]"
IsMarker(s) ==
    LET n == Len(MarkerPrefix)
    IN  /\ Len(s) >= n + 2
        /\ \A j \in 1..n : ToLower(s[j]) = MarkerPrefix[j]
        /\ s[Len(s)] = "]"
        /\ \A j \in (n + 1)..(Len(s) - 1) : s[j] # "]"

\* the ends e for which text[start, e) is a marker (at most one)
MarkerEnds(text, start) == { e \in (start + 1)..Len(text) : IsMarker(Slice(text, start, e)) }

\* the marker occurrences of text at or after position from, left to right
\* and without overlap
RECURSIVE MarkersFrom(_, _)
MarkersFrom(text, from) ==
    IF from >= Len(text) THEN <<>>
    ELSE IF MarkerEnds(text, from) = {} THEN MarkersFrom(text, from + 1)
    ELSE LET e == CHOOSE x \in MarkerEnds(text, from) : TRUE
         IN  << [ start |-> from, end |-> e ] >> \o MarkersFrom(text, e)

Markers(text) == MarkersFrom(text, 0)

\* the marker text, the keyword payload and the keywords of an occurrence
MarkerText(text, o) == Slice(text, o.start, o.end)
PayloadOf(text, o) == Slice(text, o.start + Len(MarkerPrefix), o.end - 1)
KeywordsOf(text, o) == ParseKeywords(PayloadOf(text, o), <<",">>)

\* the query issued for an occurrence: its keywords joined by one space
QueryOf(text, o) == Join(KeywordsOf(text, o), <<" ">>)

\* the documents scoring above the threshold for a query
Above(query, threshold) ==
    IF Tokenize(query) = <<>> THEN {}
    ELSE { i \in DOMAIN documents : AllResults(query)[i].score > threshold }

\* the top-ranked documents: those above the threshold whose score no
\* other document exceeds
TopDocs(query, threshold) ==
    { i \in Above(query, threshold) :
        \A j \in DOMAIN documents : AllResults(query)[j].score <= AllResults(query)[i].score }

\* the occurrence has a keyword and its search has a result
Resolved(text, o, threshold) ==
    KeywordsOf(text, o) # <<>> /\ Above(QueryOf(text, o), threshold) # {}

\* the occurrence has a keyword and its search has no result
Unresolved(text, o, threshold) ==
    KeywordsOf(text, o) # <<>> /\ Above(QueryOf(text, o), threshold) = {}

\* text with the occurrences occs replaced by the texts subs, from
\* position from on; everything between occurrences is copied
RECURSIVE Splice(_, _, _, _)
Splice(text, occs, subs, from) ==
    IF occs = <<>> THEN Slice(text, from, Len(text))
    ELSE Slice(text, from, Head(occs).start) \o Head(subs)
           \o Splice(text, Tail(occs), Tail(subs), Head(occs).end)

\* the record of the n-th occurrence: records are pushed for the
\* occurrences that have a keyword, in order
RecordOf(text, occs, n) ==
    ret.replacements[Cardinality({ m \in 1..n : KeywordsOf(text, occs[m]) # <<>> })]

\* the numbers of occurrences with a keyword, resolved and unresolved
CountWithKeywords(text, occs) ==
    Cardinality({ n \in DOMAIN occs : KeywordsOf(text, occs[n]) # <<>> })

CountResolved(text, occs, threshold) ==
    Cardinality({ n \in DOMAIN occs : Resolved(text, occs[n], threshold) })

CountUnresolved(text, occs, threshold) ==
    Cardinality({ n \in DOMAIN occs : Unresolved(text, occs[n], threshold) })

\* the strategy in force for the call held by the caller
CallStrategy == StrategyOf(config, call.options)

\* ---- C2 ----

\* the texts C2 allows in place of the n-th occurrence
C2_Allowed(text, occs, n) ==
    IF Resolved(text, occs[n], call.options.threshold)
    THEN IF CallStrategy = "all"
         THEN { RecordOf(text, occs, n).emoticon[1] }
         ELSE { documents[i].kaomoji :
                  i \in TopDocs(QueryOf(text, occs[n]), call.options.threshold) }
    ELSE { MarkerText(text, occs[n]), <<>>,
           <<"[", "?">> \o PayloadOf(text, occs[n]) \o <<"]">> }

PolicyText(text, o, options) ==
    IF options.markNotFound THEN <<"[", "?">> \o PayloadOf(text, o) \o <<"]">>
    ELSE IF options.keepOriginalOnNotFound THEN MarkerText(text, o)
    ELSE <<>>

\* the texts C3 allows in place of the n-th occurrence
C3_Allowed(text, occs, n) ==
    IF Unresolved(text, occs[n], call.options.threshold)
    THEN { PolicyText(text, occs[n], call.options) }
    ELSE IF KeywordsOf(text, occs[n]) = <<>>
         THEN { MarkerText(text, occs[n]), <<>> }
         ELSE { RecordOf(text, occs, n).emoticon[1] }

\* C3: a marker with a keyword whose search has no result is replaced by
\* "[?" payload "]" when markNotFound is set, else left as it is when
\* keepOriginalOnNotFound is set, else removed; it is counted in
\* failureCount and not in successCount.
C3_NotFoundPolicy ==
    Returned("replaceText") =>
        LET text == call.text
            occs == Markers(text)
            threshold == call.options.threshold
        IN  /\ Len(ret.replacements) = CountWithKeywords(text, occs)
            /\ \A n \in DOMAIN occs :
                  Unresolved(text, occs[n], threshold) =>
                      /\ RecordOf(text, occs, n).notFound
                      /\ RecordOf(text, occs, n).emoticon = Null
                      /\ RecordOf(text, occs, n).original = MarkerText(text, occs[n])
            /\ \E subs \in [DOMAIN occs ->
                              UNION { C3_Allowed(text, occs, n) : n \in DOMAIN occs }] :
                  /\ \A n \in DOMAIN occs : subs[n] \in C3_Allowed(text, occs, n)
                  /\ ret.text = Splice(text, occs, subs, 0)
            /\ ret.failureCount = CountUnresolved(text, occs, threshold)
            /\ ret.successCount = Len(ret.replacements) - CountUnresolved(text, occs, threshold)

\* C3 happens: markNotFound and keepOriginalOnNotFound are both set and a
\* marker whose payload differs from its trimmed keywords found nothing,
\* next to a marker that resolved
C3_Witness ==
    /\ Returned("replaceText")
    /\ call.options.markNotFound
    /\ call.options.keepOriginalOnNotFound
    /\ ret.failureCount >= 1
    /\ ret.successCount >= 1
    /\ \E n \in DOMAIN Markers(call.text) :
          /\ Unresolved(call.text, Markers(call.text)[n], call.options.threshold)
          /\ <<PayloadOf(call.text, Markers(call.text)[n])>>
                # KeywordsOf(call.text, Markers(call.text)[n])

\* ---- C8 ----

\* C8: for a marker whose search has results, 'first' and 'best' give the
\* same replacement, the payload of the top-ranked result, and 'all' gives
\* the payloads of all returned results (at most 5) in rank order joined by
\* one space; under each of them the marker is a success.
C8_Strategies ==
    (Returned("replaceText") /\ CallStrategy \in { "first", "best", "all" }) =>
        LET text == call.text
            occs == Markers(text)
            threshold == call.options.threshold
        IN  /\ Len(ret.replacements) = CountWithKeywords(text, occs)
            /\ \A n \in DOMAIN occs :
                  Resolved(text, occs[n], threshold) =>
                      LET r == RecordOf(text, occs, n)
                          results == search(This, QueryOf(text, occs[n]), MarkerTopK, threshold)
                      IN  /\ ~r.notFound
                          /\ r.matches = results
                          /\ Len(results) <= MarkerTopK
                          /\ CallStrategy \in { "first", "best" } =>
                                \E i \in TopDocs(QueryOf(text, occs[n]), threshold) :
                                    r.emoticon = Some(documents[i].kaomoji)
                          /\ CallStrategy = "all" =>
                                r.emoticon =
                                  Some(Join([k \in DOMAIN results |-> results[k].kaomoji], <<" ">>))
            /\ ret.successCount = CountResolved(text, occs, threshold)
            /\ replaceText(This, config, text, [call.options EXCEPT !.strategy = "first"])
                 = replaceText(This, config, text, [call.options EXCEPT !.strategy = "best"])

\* C8 happens: strategy 'all' replaced a marker by several payloads
C8_Witness ==
    /\ Returned("replaceText")
    /\ call.options.strategy = "all"
    /\ \E k \in DOMAIN ret.replacements :
          /\ Len(ret.replacements[k].matches) >= 3
          /\ ret.replacements[k].matches[1].kaomoji # ret.replacements[k].matches[2].kaomoji
          /\ ret.replacements[k].matches[1].score > ret.replacements[k].matches[2].score

\* ---- C9 ----

\* the result of calling replaceText again on the returned text, with the
\* same options
Again == replaceText(This, config, ret.text, call.options)

\* the second call changes nothing and reports nothing
SecondCallIsNoOp ==
    /\ Again.text = ret.text
    /\ ~Again.hasReplacements
    /\ Again.replacements = <<>>

\* no corpus payload contains a marker
NoMarkerInPayloads == \A i \in DOMAIN documents : Markers(documents[i].kaomoji) = <<>>

\* every marker occurrence of the input resolved
AllMarkersResolved ==
    /\ ret.failureCount = 0
    /\ ret.successCount = Len(Markers(call.text))

\* C9 as stated: for an input whose markers all resolved, with no corpus
\* payload containing marker syntax, replaceText on the returned text
\* returns it unchanged with hasReplacements false and no replacement.
C9_IdempotentAsStated ==
    (Returned("replaceText") /\ AllMarkersResolved /\ NoMarkerInPayloads) => SecondCallIsNoOp

\* the parts of text outside its marker occurrences, concatenated
Outside(text) == Splice(text, Markers(text), [n \in DOMAIN Markers(text) |-> <<>>], 0)

\* no "[" in a corpus payload or in the input outside its markers
NoOpenBracketAround ==
    /\ \A i \in DOMAIN documents : "[" \notin Range(documents[i].kaomoji)
    /\ "[" \notin Range(Outside(call.text))

\* C9 amended: for an input whose markers all resolved, with no "[" in a
\* corpus payload or in the input text outside its markers, replaceText on
\* the returned text returns it unchanged with hasReplacements false and
\* no replacement.
C9_IdempotentWithoutBrackets ==
    (Returned("replaceText") /\ AllMarkersResolved /\ NoOpenBracketAround) => SecondCallIsNoOp

\* C9 happens: markers were replaced by payloads and the input qualifies
C9_Witness ==
    /\ Returned("replaceText")
    /\ AllMarkersResolved
    /\ NoOpenBracketAround
    /\ ret.successCount >= 2
    /\ ret.text # call.text


\* ---- C11 ----

\* C11: the occurrences matched are exactly the substrings "[" tag ":"
\* payload "]" with the tag in any case and a non-empty payload without
\* "]", found left to right without overlap, the payload ending at the
\* first "]"; preview lists them with their offsets, replaceText records
\* those with a keyword, and a text without such a substring (one lacking
\* the closing bracket among them) is returned untouched.
C11_MarkerDetection ==
    /\ Returned("preview") =>
          LET occs == Markers(call.text)
          IN  /\ Len(ret) = Len(occs)
              /\ \A n \in DOMAIN occs :
                    /\ ret[n].offset = occs[n].start
                    /\ ret[n].marker = MarkerText(call.text, occs[n])
                    /\ IsMarker(ret[n].marker)
              /\ \A n \in DOMAIN occs : n > 1 => occs[n - 1].end <= occs[n].start
    /\ Returned("replaceText") =>
          LET occs == Markers(call.text)
              kept == SelectSeq(occs, LAMBDA o : KeywordsOf(call.text, o) # <<>>)
          IN  /\ Len(ret.replacements) = Len(kept)
              /\ \A n \in DOMAIN kept :
                    /\ ret.replacements[n].offset = kept[n].start
                    /\ ret.replacements[n].original = MarkerText(call.text, kept[n])
              /\ occs = <<>> => (ret.text = call.text /\ ~ret.hasReplacements)

\* C11 happens: preview found two markers, one with its tag in another
\* case, in a text that has characters outside them
C11_Witness ==
    /\ Returned("preview")
    /\ Len(ret) >= 2
    /\ \E n \in DOMAIN ret : SubSeq(ret[n].marker, 1, Len(MarkerPrefix)) # MarkerPrefix
    /\ \E n \in DOMAIN ret : n > 1 /\ ret[n].offset > ret[n - 1].offset + Len(ret[n - 1].marker)


\* ---- C12 ----

\* the maximal runs of characters of Cls in text, as pairs of 0-based
\* start and exclusive end
MaximalRuns(text, Cls) ==
    { r \in (0..Len(text)) \X (0..Len(text)) :
        /\ r[1] < r[2]
        /\ \A j \in (r[1] + 1)..r[2] : text[j] \in Cls
        /\ (r[1] = 0 \/ text[r[1]] \notin Cls)
        /\ (r[2] = Len(text) \/ text[r[2] + 1] \notin Cls) }

\* (1) the words: the runs of ideographs, letters and digits between the
\* characters replaced by a space
WholeWords(text) == { Slice(text, r[1], r[2]) : r \in MaximalRuns(text, WordChar) }

\* the smaller of two numbers
Min(x, y) == IF x <= y THEN x ELSE y

\* (2) for every maximal run of ideographs of length L, its substrings of
\* length 1 and of length 2..min(4, L)
RunTerms(text) ==
    UNION { { Slice(text, p[2], p[2] + p[1]) :
                p \in { q \in ({1} \cup (2..Min(4, r[2] - r[1]))) \X (r[1]..(r[2] - 1)) :
                          q[2] + q[1] <= r[2] } }
            : r \in MaximalRuns(text, CJK) }

\* C12: the tokenizer returns, without duplicates, exactly the words of the
\* cleaned text together with, for every maximal run of ideographs of
\* length L, every substring of the run of length 1 and of length
\* 2..min(4, L); the same text always gives the same terms.
C12_TokenizerTerms ==
    Returned("tokenize") =>
        /\ Range(ret) = WholeWords(call.text) \cup RunTerms(call.text)
        /\ Cardinality(Range(ret)) = Len(ret)
        /\ Range(Tokenize(call.text)) = Range(ret)

\* C12 happens: a run of five ideographs after a letter, giving the word
\* of six characters and 4-grams of the run
C12_Witness ==
    /\ Returned("tokenize")
    /\ \E r \in MaximalRuns(call.text, CJK) : r[2] - r[1] = 5
    /\ \E t \in Range(ret) : Len(t) = 4
    /\ \E t \in Range(ret) : Len(t) = 6


\* ---- C13 ----

\* the marker occurrences of text that have a keyword, left to right
WithKeywords(text) == SelectSeq(Markers(text), LAMBDA o : KeywordsOf(text, o) # <<>>)

\* C13: replaceText produces exactly one record per marker occurrence with
\* a keyword, in left-to-right order, its index being its position
\* (0, 1, 2, ...) and its offset the start of the marker in the input text;
\* successCount + failureCount is the number of records and
\* hasReplacements holds iff that number is positive.
C13_RecordsPerMarker ==
    Returned("replaceText") =>
        LET kept == WithKeywords(call.text)
        IN  /\ Len(ret.replacements) = Len(kept)
            /\ \A n \in DOMAIN kept :
                  /\ ret.replacements[n].index = n - 1
                  /\ ret.replacements[n].offset = kept[n].start
                  /\ ret.replacements[n].original = MarkerText(call.text, kept[n])
                  /\ ret.replacements[n].keywords = KeywordsOf(call.text, kept[n])
            /\ ret.successCount + ret.failureCount = Len(ret.replacements)
            /\ ret.hasReplacements <=> Len(ret.replacements) > 0

\* C13 happens: a marker without keyword was removed, then a marker was
\* replaced by a shorter payload and a third one found nothing, so the
\* second and third offsets are those of the input, not of the output
C13_Witness ==
    /\ Returned("replaceText")
    /\ Len(Markers(call.text)) = 3
    /\ Len(ret.replacements) = 2
    /\ ret.successCount = 1
    /\ ret.failureCount = 1
    /\ ret.replacements[1].offset > 0
    /\ ret.replacements[2].offset > Len(ret.text)


\* ---- C14 ----

\* the position in the corpus of the entry a result stands for (payloads
\* are distinct within each corpus)
DocIndex(r) == CHOOSE i \in DOMAIN documents : documents[i].kaomoji = r.kaomoji

\* result r ranks before the entry at position i scoring s
RanksBefore(r, i, s) == r.score > s \/ (r.score = s /\ DocIndex(r) < i)

\* the earliest of the top-ranked documents
EarliestTop(query, threshold) ==
    CHOOSE i \in TopDocs(query, threshold) :
        \A j \in TopDocs(query, threshold) : i <= j

\* C14: entries with equal scores are returned by search in corpus
\* insertion order, also when topK cuts between them, so the entry chosen
\* by strategy 'best' among tied top scorers is the earliest in the corpus.
C14_TiesInCorpusOrder ==
    /\ Returned("search") =>
          /\ \A m, n \in DOMAIN ret :
                m < n => RanksBefore(ret[m], DocIndex(ret[n]), ret[n].score)
          /\ \A n \in DOMAIN ret :
                \A i \in Above(call.text, call.threshold) :
                    (\A m \in DOMAIN ret : DocIndex(ret[m]) # i) =>
                        RanksBefore(ret[n], i, AllResults(call.text)[i].score)
    /\ (Returned("replaceText") /\ CallStrategy = "best") =>
          \A n \in DOMAIN Markers(call.text) :
              Resolved(call.text, Markers(call.text)[n], call.options.threshold) =>
                  RecordOf(call.text, Markers(call.text), n).emoticon =
                      Some(documents[EarliestTop(QueryOf(call.text, Markers(call.text)[n]),
                                                 call.options.threshold)].kaomoji)

\* C14 happens: strategy 'best' chose between two entries with the top score
C14_Witness ==
    /\ Returned("replaceText")
    /\ CallStrategy = "best"
    /\ \E k \in DOMAIN ret.replacements :
          /\ Len(ret.replacements[k].matches) >= 2
          /\ ret.replacements[k].matches[1].score = ret.replacements[k].matches[2].score
          /\ ret.replacements[k].matches[1].kaomoji # ret.replacements[k].matches[2].kaomoji


\* ---- C15 ----

\* what the manager holds, by value: its entries with their keywords
View(m) ==
    [ i \in DOMAIN m.kaomojis |->
        [ kaomoji |-> m.heap[m.kaomojis[i]].kaomoji,
          keywords |-> m.heap[m.heap[m.kaomojis[i]].keywords],
          weight |-> m.heap[m.kaomojis[i]].weight,
          category |-> m.heap[m.kaomojis[i]].category ] ]

\* the reads C15 names
CopyingReads ==
    { "getAllKaomojis", "getKaomojiByText", "filterByCategory", "findByKeyword",
      "getKeywordsByKaomoji", "exportToArray" }

\* the objects of the returned value are not those of the manager
ReturnedApart ==
    (pc = "returned" /\ call.op \in CopyingReads) =>
        Live(heap, HeldEntries(ret), HeldArrays(ret))
          \cap Live(heap, Range(managerKaomojis), {}) = {}

\* a step of the caller on the value it holds leaves the manager as it was
CallerStepKeepsManager ==
    (pc = "returned" /\ pc' = "returned") => View(Manager)' = View(Manager)

\* C15: the objects returned by getAllKaomojis, getKaomojiByText,
\* filterByCategory, findByKeyword, getKeywordsByKaomoji and exportToArray
\* are copies: changing the keywords list or the category of a returned
\* entry changes nothing the manager holds, hence nothing a later read
\* returns.
C15_DataIsolation == []ReturnedApart /\ [][CallerStepKeepsManager]_vars

\* C15 happens: the caller has pushed a keyword on a returned entry and set
\* its category, and the stored entry has neither
C15_Witness ==
    /\ pc = "returned"
    /\ call.op \in CopyingReads
    /\ ret.t = "entries"
    /\ \E e \in HeldEntries(ret) :
          /\ heap[e].category = <<"t">>
          /\ <<"wo">> \in Range(heap[heap[e].keywords])
          /\ \E i \in DOMAIN managerKaomojis :
                /\ View(Manager)[i].kaomoji = heap[e].kaomoji
                /\ View(Manager)[i].category # <<"t">>
                /\ <<"wo">> \notin Range(View(Manager)[i].keywords)


\* ---- C16 ----

\* an item is valid: its text is a non-empty string and its keywords a
\* non-empty array
ValidAsClaimed(item) ==
    /\ item.kaomoji.t = "string" /\ item.kaomoji.v # <<>>
    /\ item.keywords.t = "array" /\ item.keywords.v # <<>>

\* the entry stored for a valid item: its text, its keywords trimmed and
\* without the blank ones, its weight (1.0 by default) and its category
\* ('' by default)
StoredFor(item) ==
    [ kaomoji |-> item.kaomoji.v,
      keywords |-> SelectSeq([ i \in DOMAIN item.keywords.v |-> Trim(item.keywords.v[i].v) ],
                             LAMBDA k : k # <<>>),
      weight |-> IF item.weight.t = "undefined" THEN Num(FP) ELSE item.weight,
      category |-> IF item.category.t = "undefined" THEN <<>> ELSE item.category.v ]

\* the argument is an array of item objects
ArrayOfObjects(data) == data.t = "array" /\ \A i \in DOMAIN data.v : data.v[i].t = "object"

Reloaded == loadFromJSON(NewManager, exportToJSON(Manager))

\* C17: for every state the manager can reach, a fresh manager loaded with
\* loadFromJSON(exportToJSON()) holds as many entries, with the same text,
\* keywords, weight and category, in the same order.
C17_ExportReloadRoundTrip ==
    /\ ~Reloaded.threw
    /\ Len(Reloaded.manager.kaomojis) = Len(managerKaomojis)
    /\ View(Reloaded.manager) = View(Manager)


\* ---- C18 ----

\* replaceText on the previewed text with threshold 0
WithThreshold0 ==
    replaceText(This, config, call.text,
                [ strategy |-> "undefined", threshold |-> 0,
                  keepOriginalOnNotFound |-> TRUE, markNotFound |-> FALSE ])

\* the number of occurrences with a keyword among the first n
RecordPosition(text, occs, n) ==
    Cardinality({ m \in 1..n : KeywordsOf(text, occs[m]) # <<>> })

\* preview returns one entry per marker occurrence, left to right, with the
\* offset of the marker in the input; the matches of a marker are the
\* candidates replaceText with threshold 0 records for it, and bestMatch is
\* the first of them or null
PreviewAgrees ==
    Returned("preview") =>
        LET text == call.text
            occs == Markers(text)
        IN  /\ Len(ret) = Len(occs)
            /\ \A n \in DOMAIN occs :
                  /\ ret[n].offset = occs[n].start
                  /\ ret[n].marker = MarkerText(text, occs[n])
                  /\ ret[n].keywords = KeywordsOf(text, occs[n])
                  /\ KeywordsOf(text, occs[n]) # <<>> =>
                        ret[n].matches =
                          WithThreshold0.replacements[RecordPosition(text, occs, n)].matches
                  /\ KeywordsOf(text, occs[n]) = <<>> => ret[n].matches = <<>>
                  /\ ret[n].bestMatch = IF ret[n].matches = <<>> THEN Null
                                        ELSE Some(ret[n].matches[1])

\* a call of preview changes neither the index nor the configuration
PreviewKeepsIndex ==
    (pc = "idle" /\ call'.op = "preview") => UNCHANGED << engineVars, config >>

\* C18: preview changes neither the text nor the index and agrees with
\* replaceText: one entry per marker occurrence in left-to-right order with
\* the marker's offset in the input, matches equal to the candidates
\* replaceText with threshold 0 records for the marker, and bestMatch the
\* first candidate or null.
C18_PreviewConsistent == []PreviewAgrees /\ [][PreviewKeepsIndex]_vars

\* C18 happens: preview listed a marker without keyword, and a marker with
\* several candidates
C18_Witness ==
    /\ Returned("preview")
    /\ Len(ret) >= 2
    /\ \E n \in DOMAIN ret : ret[n].keywords = <<>> /\ ret[n].bestMatch = Null
    /\ \E n \in DOMAIN ret : Len(ret[n].matches) >= 2 /\ ret[n].offset > 0

\* ------------------------------------------------------------------------
\* C19: display mode leaves message.mes alone
\* ------------------------------------------------------------------------

\* the options processMessage hands to replaceText
SettingsOptions ==
    [ strategy |-> settings.replaceStrategy, threshold |-> 0,
      keepOriginalOnNotFound |-> settings.keepOriginalOnNotFound,
      markNotFound |-> settings.markNotFound ]

\* the step is a processMessage call made with modifyMode = 'display'
DisplayRun == pc = "idle" /\ call'.op = "processMessage" /\ settings.modifyMode = "display"

\* what a successful display run does to its message: display_text is the
\* replaced text, emoticon_original is the content unless a backup was there
\* already (which is kept), and nothing else of the message changes
DisplayEffect(before, after) ==
    /\ after.mes = before.mes
    /\ after.is_user = before.is_user
    /\ after.is_system = before.is_system
    /\ after.extra.t = "object"
    /\ after.extra.display_text
          = Some(replaceText(This, config, before.mes, SettingsOptions).text)
    /\ after.extra.emoticon_original
          = IF before.extra.t = "object" /\ ~NoBackup(before.extra)
            THEN before.extra.emoticon_original
            ELSE Some(before.mes)

\* C19: a processMessage call made with modifyMode = 'display' changes the
\* mes of no message, whatever it returns and however many calls came
\* before; it changes no message other than its own; and when it returns
\* true, its message differs from before only in extra.display_text, now
\* the replaced text, and extra.emoticon_original, now the original content.
C19_DisplayKeepsContent ==
    [][ DisplayRun =>
          /\ Len(chat') = Len(chat)
          /\ \A j \in DOMAIN chat : chat'[j].mes = chat[j].mes
          /\ \A j \in DOMAIN chat : j # call'.messageId => chat'[j] = chat[j]
          /\ ret'.value => DisplayEffect(chat[call'.messageId], chat'[call'.messageId]) ]_vars

\* a display run has returned true on a message that now shows a text other
\* than its content
C19_Witness ==
    /\ pc = "returned"
    /\ call.op = "processMessage"
    /\ ret.value
    /\ settings.modifyMode = "display"
    /\ chat[call.messageId].extra.display_text # Null
    /\ chat[call.messageId].extra.display_text # Some(chat[call.messageId].mes)
    /\ chat[call.messageId].extra.emoticon_original = Some(chat[call.messageId].mes)

\* ------------------------------------------------------------------------
\* C20: the three outcomes of initEmoticonStorage
\* ------------------------------------------------------------------------

\* an initEmoticonStorage call has returned
InitReturned == pc = "returned" /\ call.op = "initEmoticonStorage"

\* forceReload is false and the cache held a non-empty array
CacheCase == ~call.options.forceReload /\ NonEmptyArray(ret.before)

\* defaultURL is given and the remote load yields a non-empty array
RemoteCase ==
    /\ ~Falsy(call.options.defaultURL)
    /\ NonEmptyArray(loadFromRemote(call.env.response))

\* C20: initEmoticonStorage never rejects; it returns the cached array,
\* without fetching and without writing, when forceReload is false and the
\* cache holds a non-empty array; otherwise the remote array, which is then
\* the content of the cache, when defaultURL is given and the remote load
\* yields a non-empty array; otherwise the empty array, the cache being as
\* it was.
C20_InitOutcomes ==
    InitReturned =>
        /\ ~ret.rejected
        /\ IF CacheCase
           THEN ret.value = ret.before /\ ~ret.fetched /\ cache = ret.before
           ELSE IF RemoteCase
           THEN /\ ret.value = loadFromRemote(call.env.response)
                /\ cache = loadFromRemote(call.env.response)
           ELSE ret.value = Arr(<<>>) /\ cache = ret.before

\* the same outcomes when every use of IndexedDB succeeds
C20_InitOutcomesDatabaseWorking ==
    (call.op = "initEmoticonStorage" /\ call.env.read = "ok" /\ call.env.write = "ok")
        => C20_InitOutcomes

\* the call never rejects, whatever IndexedDB and the network do
C20_NeverRejects == InitReturned => ~ret.rejected

\* ------------------------------------------------------------------------
\* C21: no character counted at both granularities
\* ------------------------------------------------------------------------

\* what the one-character query term <<ch>> adds to the wholeWordScore of doc
\* (steps 1 and 2 of _calculateBM25)
WholeCredit(doc, ch) ==
    WholeTermScore(This, << <<ch>> >>, doc) + BorrowScore(This, << <<ch>> >>, doc)

\* what the query character ch adds to the charScore of doc (step 3)
CharCredit(singleCharQueries, doc, ch) == CharScore(This, <<ch>>, singleCharQueries, doc)

\* the one-character terms of the query text
SingleCharQueries(text) == SelectSeq(Tokenize(text), LAMBDA term : Len(term) = 1)

\* C21: for the query of a search call and every document of the index, a
\* character that is a query term and has added to the document's
\* wholeWordScore adds nothing to the document's charScore.
C21_NoDoubleCount ==
    (pc = "returned" /\ call.op = "search") =>
        \A i \in DOMAIN documents :
            \A ch \in Range(Flatten(SingleCharQueries(call.text))) :
                WholeCredit(documents[i], ch) > 0
                    => CharCredit(SingleCharQueries(call.text), documents[i], ch) = 0

\* the same for the characters credited by borrowing (step 2) alone
C21_NoDoubleCountBorrowed ==
    (pc = "returned" /\ call.op = "search") =>
        \A i \in DOMAIN documents :
            \A ch \in Range(Flatten(SingleCharQueries(call.text))) :
                BorrowScore(This, << <<ch>> >>, documents[i]) > 0
                    => CharCredit(SingleCharQueries(call.text), documents[i], ch) = 0

\* ------------------------------------------------------------------------
\* C22: the consumed characters are scoped to one document
\* ------------------------------------------------------------------------

\* the engine with its documents in reverse order and the same statistics
Reversed ==
    [ This EXCEPT !.documents = [ i \in DOMAIN documents |->
                                    documents[Len(documents) + 1 - i] ] ]

\* the payloads and scores of a result list
Scores(results) == { << results[i].kaomoji, results[i].score >> : i \in DOMAIN results }

\* the characters step 2 credits for document i of the index under the
\* query text
Consumed(text, i) == ScoredSingleChars(SingleCharQueries(text), documents[i])

\* C22: every entry gets the same score for the query of a search call
\* whether the documents are scored in index order or in reverse order:
\* what an earlier document has borrowed is not withheld from a later one.
C22_ConsumedPerDocument ==
    (pc = "returned" /\ call.op = "search") =>
        Scores(search(This, call.text, Len(documents), call.threshold))
            = Scores(search(Reversed, call.text, Len(documents), call.threshold))

\* a search has scored a document that borrows a character and, after it, a
\* document that holds the character without borrowing it and is returned
C22_Witness ==
    /\ pc = "returned"
    /\ call.op = "search"
    /\ \E i, j \in DOMAIN documents :
          /\ i < j
          /\ \E ch \in Consumed(call.text, i) :
                /\ ch \notin Consumed(call.text, j)
                /\ CharCredit(SingleCharQueries(call.text), documents[j], ch) > 0
          /\ \E r \in DOMAIN ret : ret[r].kaomoji = documents[j].kaomoji

\* ------------------------------------------------------------------------
\* C23: a marker without keywords
\* ------------------------------------------------------------------------

\* the text put in place of an occurrence of the call held by the caller
C23_Substitute(text, occs, n) ==
    IF KeywordsOf(text, occs[n]) = <<>>
    THEN IF call.options.keepOriginalOnNotFound THEN MarkerText(text, occs[n]) ELSE <<>>
    ELSE IF Resolved(text, occs[n], call.options.threshold)
    THEN RecordOf(text, occs, n).emoticon[1]
    ELSE PolicyText(text, occs[n], call.options)

\* C23: a marker whose payload yields no keyword gets no record and changes
\* neither counter; in the output it is kept verbatim when
\* keepOriginalOnNotFound is set and removed otherwise, whatever
\* markNotFound is.  (That no search is issued for it is not visible in the
\* returned value; search changes nothing.)
C23_NoKeywordMarker ==
    Returned("replaceText") =>
        LET text == call.text
            occs == Markers(text)
        IN  /\ \A n \in DOMAIN occs :
                  KeywordsOf(text, occs[n]) = <<>> =>
                      \A r \in DOMAIN ret.replacements :
                          ret.replacements[r].offset # occs[n].start
            /\ Len(ret.replacements) = CountWithKeywords(text, occs)
            /\ ret.successCount + ret.failureCount = CountWithKeywords(text, occs)
            /\ ret.text = Splice(text, occs,
                                 [ n \in DOMAIN occs |-> C23_Substitute(text, occs, n) ], 0)

\* a marker without keywords was removed although markNotFound is set, next
\* to a marker that was replaced
C23_Witness ==
    /\ Returned("replaceText")
    /\ call.options.markNotFound
    /\ ~call.options.keepOriginalOnNotFound
    /\ ret.successCount >= 1
    /\ \E n \in DOMAIN Markers(call.text) :
          /\ KeywordsOf(call.text, Markers(call.text)[n]) = <<>>
          /\ PayloadOf(call.text, Markers(call.text)[n]) # <<>>
    /\ Len(ret.replacements) < Len(Markers(call.text))

\* the number of occurrences of the result object x in a result list
Occurrences(results, x) == Cardinality({ i \in DOMAIN results : results[i] = x })

\* C24: for a query with at least one term, whether an entry is returned by
\* search depends only on its score exceeding the threshold: every result
\* returned is the result object of an entry above the threshold, and when
\* topK does not cut the list every entry above the threshold is returned,
\* an entry with empty matchedKeywords included.
C24_ScoreAloneDecides ==
    (Returned("search") /\ Tokenize(call.text) # <<>>) =>
        LET all == AllResults(call.text)
            above == SelectSeq(all, LAMBDA x : x.score > call.threshold)
        IN  /\ \A r \in DOMAIN ret : Occurrences(ret, ret[r]) <= Occurrences(above, ret[r])
            /\ Len(above) <= call.topK =>
                  \A i \in DOMAIN all :
                      all[i].score > call.threshold =>
                          Occurrences(ret, all[i]) = Occurrences(above, all[i])

\* C24 happens: the query wo-hen-xin on the four test entries returns the
\* entry holding kai-xin, with which it shares the character xin only
C24_Witness ==
    /\ Returned("search")
    /\ call.text = <<"wo", "hen", "xin">>
    /\ lastBuilt = << TestKaomojis >>
    /\ \E r \in DOMAIN ret :
          /\ ret[r].kaomoji = <<"(", "^", ")">>
          /\ ret[r].matchedKeywords = <<>>
          /\ ret[r].score > call.threshold

\* C25: every value in the idf and charIdf tables is non-negative, the
\* values of terms and characters occurring in every document and the
\* values kept from earlier builds included; the values set by the latest
\* build are those of the formula for a document count within 1..N.
C25_IdfNonNegative ==
    /\ \A term \in DOMAIN idf : idf[term] >= 0
    /\ \A ch \in DOMAIN charIdf : charIdf[ch] >= 0
    /\ \A i \in DOMAIN documents :
          /\ \A k \in DOMAIN documents[i].keywords :
                LET term == documents[i].keywords[k]
                    df == TermDocCount(documents, term)
                IN  /\ df \in 1..Len(documents)
                    /\ idf[term] = MathLog(2 * Len(documents) + 2, 2 * df + 1)
          /\ \A c \in DOMAIN documents[i].chars :
                LET ch == documents[i].chars[c]
                    df == CharDocCount(documents, ch)
                IN  /\ df \in 1..Len(documents)
                    /\ charIdf[ch] = MathLog(2 * Len(documents) + 2, 2 * df + 1)

\* C25 happens: an index of several documents with a character occurring in
\* every one of them, and a term kept from an earlier build
C25_Witness ==
    /\ Len(documents) >= 2
    /\ \E ch \in DOMAIN charIdf : CharDocCount(documents, ch) = Len(documents)
    /\ \E term \in DOMAIN idf : TermDocCount(documents, term) = 0

\* ---- C26 ----

\* a step in which loadFromArray or loadFromJSON throws
LoadThrows ==
    /\ pc = "idle" /\ pc' = "returned"
    /\ call'.op \in { "loadFromArray", "loadFromJSON" }
    /\ ret'.threw

\* C26: a failing load never partially mutates the data manager: whenever
\* loadFromArray or loadFromJSON throws, the entry list holds the same
\* entries, with the same contents, as before the call.
C26_FailedLoadKeepsEntries ==
    [][LoadThrows => (managerKaomojis' = managerKaomojis /\ View(Manager)' = View(Manager))]_vars

\* C26 for the loads that throw before the list is emptied: an argument
\* that is not an array, and a text that is not JSON
C26_RejectedArgumentKeepsEntries ==
    [][(LoadThrows /\ (\/ call'.arguments[1] = InvalidJSON
                       \/ (call'.op = "loadFromArray" /\ call'.arguments[1].t # "array")))
          => (managerKaomojis' = managerKaomojis /\ View(Manager)' = View(Manager))]_vars

\* ---- C27 ----

\* every stored entry has a keyword, and no stored keyword is blank
KeywordsWellFormed ==
    \A i \in DOMAIN managerKaomojis :
        LET keywords == heap[heap[managerKaomojis[i]].keywords]
        IN  /\ Len(keywords) >= 1
            /\ \A k \in DOMAIN keywords : Trim(keywords[k]) # <<>>

\* C27: after any sequence of data-manager operations every stored entry
\* has at least one keyword and every stored keyword is non-empty after
\* trimming.
C27_KeywordsWellFormed == KeywordsWellFormed

\* C27 for addKeyword and removeKeyword alone: on a well-formed list they
\* leave a well-formed list
C27_KeywordEditsKeepWellFormed ==
    [][(KeywordsWellFormed /\ pc = "idle" /\ pc' = "returned"
          /\ call'.op \in { "addKeyword", "removeKeyword" }) => KeywordsWellFormed']_vars

\* ---- C28 ----

\* restoreMessage acts on a message processMessage has modified (it holds a
\* backup of its content), and its promise resolves
RestoreOfProcessed(m) ==
    /\ pc = "idle" /\ pc' = "returned"
    /\ call' = [ op |-> "restoreMessage", messageId |-> m ]
    /\ m \in DOMAIN chat
    /\ chat[m].extra.t = "object"
    /\ chat[m].extra.emoticon_original # Null
    /\ ~ret'.rejected

\* the message is as before processing: its content is the one backed up,
\* and neither display_text nor emoticon_original remains
RestoredFrom(before, after) ==
    /\ after.mes = before.extra.emoticon_original[1]
    /\ after.extra.display_text = Null
    /\ after.extra.emoticon_original = Null

\* C28: for any message processMessage has modified, a later restoreMessage
\* returns true and leaves message.mes equal to the content before
\* processing, with neither extra.display_text nor extra.emoticon_original
\* remaining, whatever the value of settings.modifyMode at the restore.
C28_RestoreRoundTrip ==
    [][\A m \in MessageIds :
          RestoreOfProcessed(m) => (ret'.value = TRUE /\ RestoredFrom(chat[m], chat'[m]))]_vars

\* C28 for a restore under the modifyMode the message was processed in:
\* display mode for a message holding a display text over its own content,
\* content mode for a message holding none
C28_RestoreInProcessingMode ==
    [][\A m \in MessageIds :
          (RestoreOfProcessed(m)
             /\ \/ /\ settings.modifyMode = "display"
                   /\ chat[m].extra.display_text # Null
                   /\ chat[m].mes = chat[m].extra.emoticon_original[1]
                \/ /\ settings.modifyMode = "content"
                   /\ chat[m].extra.display_text = Null)
          => (ret'.value = TRUE /\ RestoredFrom(chat[m], chat'[m]))]_vars

\* ---- C29 ----

\* what search, exactMatch and replaceText return for the texts asked for
ResultsOf(this, text) ==
    << search(this, text, MaxTopK, 0), exactMatch(this, text),
       replaceText(this, DefaultConfig, text, SnapshotOptions) >>

\* the caller changes its data
CallerStep == edits' = edits + 1

\* buildIndex returns
BuildStep == pc = "idle" /\ pc' = "returned" /\ call'.op = "buildIndex"

\* the documents hold what the caller's data holds
IndexOfData ==
    /\ Len(documents) = Len(managerKaomojis)
    /\ \A i \in DOMAIN documents :
          /\ documents[i].kaomoji = heap[managerKaomojis[i]].kaomoji
          /\ documents[i].keywords = heap[heap[managerKaomojis[i]].keywords]

\* C29: the built index is a snapshot: a change of the caller's data,
\* through the data manager or directly on the array passed in, changes
\* the engine and no result of search, exactMatch or replaceText, and the
\* next buildIndex makes the index that of the data as it then is.
C29_IndexIsSnapshot ==
    [][/\ CallerStep => /\ This' = This
                      /\ \A text \in SnapshotTexts :
                            ResultsOf(This', text) = ResultsOf(This, text)
       /\ BuildStep => IndexOfData']_vars

\* C29 happens: a search returns an entry from an index whose data the
\* caller changed after the build
C29_Witness ==
    /\ Returned("search")
    /\ ret # <<>>
    /\ builds > 0
    /\ ~IndexOfData

\* ---- C30 ----

\* a pass of the loop of preview: the condition held and the body ran
LoopPass == pc = "exec" /\ pc' = "exec"

\* C30: preview terminates on every input under every markerPattern
\* setConfig accepts, a pattern without the global flag included: every
\* pass of the loop moves regex.lastIndex, which the length of the text
\* bounds, forward, so that no exec is repeated.
C30_PreviewTerminates ==
    [][LoopPass => (call.lastIndex < call'.lastIndex /\ call'.lastIndex <= Len(call.text))]_vars

\* C30 under a pattern with the g flag that matches no empty string
C30_GlobalPatternTerminates ==
    [][(LoopPass /\ config.markerPattern.global)
          => (call.lastIndex < call'.lastIndex /\ call'.lastIndex <= Len(call.text))]_vars

\* C30, the occurrences reported: when preview returns it holds one entry
\* per match of the pattern, left to right, and none of them twice
C30_ReturnedEntries ==
    Returned("preview") =>
        /\ config.markerPattern.global => ret = preview(This, config, call.text)
        /\ \A m, n \in DOMAIN ret : m < n => ret[m].offset < ret[n].offset

=============================================================================
